---- MODULE Spec2Model ----
(***************************************************************************)
(* Verification model of the surf-lamp firmware's connectivity engine.     *)
(*                                                                         *)
(* Part 1: StateMachine (scalable_arduino/core/StateMachine.h).            *)
(* Part 2: setupWiFi (lamp_refractored/lamp_template/WiFiHandler.cpp) with *)
(*         WiFiFingerprinting (template_ino/maayans_lamp).                 *)
(* Part 3: WiFiFingerprinting on its own, in both of its variants.         *)
(* Part 4: link health in loop() (handleWiFiHealth, WiFiEvent).            *)
(* Part 5: the network lane and the render lane (DualCoreManager.cpp).     *)
(* Part 6: SurfData::isFresh (scalable_arduino/data/SurfDataModel.h).      *)
(* Part 7: setupWiFi beside a run that holds another diagnostic text.      *)
(* Part 8: diagnoseSSID on scans with several entries of the target.       *)
(* Part 9: StateMachine with direct calls of transitionTo.                 *)
(* Part 10: the two lanes with the stores of markSunsetPlayed apart.       *)
(* Part 11: EventBus (scalable_arduino/core/EventBus.h).                   *)
(* Part 12: TaskScheduler (scalable_arduino/core/TaskScheduler.h).         *)
(***************************************************************************)
EXTENDS Integers, Sequences, FiniteSets, TLC

VARIABLES
    \* ---- StateMachine fields (StateMachine.h:38-46)
    currentState, previousState, stateStartTime, lastStateChange,
    onEnterState, onExitState,
    \* millis() as seen by the state machine
    now,
    \* observation of the last StateMachine operation: its name, its event or
    \* forced state, processEvent's local oldState and return value, and the
    \* hook invocations it made, in order
    smOp, smArg, oldState, smReturn, hookCalls,
    \* history: the last states entered by processEvent since construction or
    \* the last forceState; whether no forceState happened yet; and how the
    \* machine got from its last stay in OPERATIONAL to where it is
    trail, fresh, pathFromOp,
    \* ---- setupWiFi (WiFiHandler.cpp) and its collaborators
    \* position in setupWiFi, and how many times the device has rebooted
    pc, boots,
    \* durable state: the station configuration's SSID ("" = no credentials)
    \* and the NVS namespace "wifi_fp" (key "count", keys "n0".."n3")
    cfgSSID, nvsCount, nvsKeys,
    \* the access points in radio range other than the target network
    env,
    \* WiFiFingerprinting::fingerprint, the neighbors[0..count-1] in order
    fingerprint,
    \* locals of setupWiFi
    hasCredentials, scenario, attempt, connected, retryStartTime, attemptedSSID,
    \* millis() in ms, WiFiManager's configPortalTimeout in s
    millis, portalTimeout,
    \* globals of WiFiHandler.cpp
    lastWiFiError, lastDisconnectReason,
    \* observation: the last network actions setupWiFi made since boot (the
    \* call, whether it succeeded or returned true, and a number: for
    \* isSameLocation the count its scan gave, -1 without a scan; for a failed
    \* WiFi.begin its timeout and for a delay its length, in seconds), the
    \* number of isSameLocation calls since boot, setupWiFi's return value
    \* and the ESP.restart() calls it made since power-on
    calls, locationChecks, ret, restarts,
    \* ---- WiFiFingerprinting used on its own
    \* which isSameLocation the build has ("any": maayans_lamp, "quorum":
    \* reference_ino), and the observation of the last operation on the
    \* object or its surroundings: its name, the scan it made and what it
    \* returned
    variant, fpOp, fpScan, fpResult,
    \* ---- link health in loop() (WiFiHandler.cpp:12-19, 428-489)
    \* WiFi.status() == WL_CONNECTED, the globals reconnectAttempts,
    \* lastReconnectAttempt and wifiJustReconnected, handleWiFiResetButton's
    \* static buttonPressTime, whether ESP.restart() has stopped the loop,
    \* and the observation of the last event or loop call: its name and the
    \* milliseconds it spent in delay()
    linkUp, reconnectAttempts, lastReconnectAttempt, wifiJustReconnected,
    buttonPressTime, halted, hOp, blockedMs,
    \* ---- the two lanes (DualCoreManager.cpp, SunsetCalculator.cpp,
    \*      WebServerHandler.cpp)
    \* millis() as a 32-bit word <<high 12 bits, low 20 bits>>, and how many
    \* times it has wrapped since boot
    ms, wraps,
    \* networkSecretaryTask: its position, the loop iterations it has begun,
    \* its locals now and lastFetch, the time since the last fetch that the
    \* iteration found, the HTTP response being handled and the value
    \* fetchSurfDataFromServer returns
    netPc, netIterations, netNow, lastFetch, netElapsed, response, fetchResult,
    \* the std::atomic cells of namespace DualCore
    sunsetMinutesSinceMidnight, sunsetPlayedToday, lastDayOfYear,
    currentYear, currentMonth, currentDay, currentHour, currentMinute,
    coordinatesInitialized, networkTaskRunning, lastSuccessfulFetch,
    \* plain globals: lastDataFetch, the fields of the SunsetCalculator
    \* object sunsetCalc, and lastSurfData
    lastDataFetch, sunsetCalc, lastSurfData,
    \* observation: the lane that took the last step, and for the render
    \* lane's last call its name, what it returned, and the clock time and
    \* surf data it read (<< >> when it read none)
    lane, rOp, rResult, seenTime, seenSurf,
    \* ---- SurfData (scalable_arduino/data/SurfDataModel.h), with ms as its
    \*      millis()
    \* the fields dataReceived and lastUpdate of a SurfData object, the
    \* milliseconds that have really passed since its last update(), the
    \* clock advances followed so far, and the observation of the last
    \* operation: its name, isFresh's argument and what it returned
    surfData, age, freshTicks, freshOp, freshTimeout, freshResult,
    \* ---- diagnoseSSID (WiFiHandler.cpp:63-128) called on its own
    \* the scan WiFi.scanNetworks() gave, how far the failed attempt has
    \* been handled, and the string diagnoseSSID returned
    dgScan, dgOp, dgResult,
    \* ---- EventBus (scalable_arduino/core/EventBus.h)
    \* the fields eventQueue, queueHead and queueTail; where processQueue
    \* stands; the last operation and what queueEvent returned; and, as
    \* history, how many events were offered to queueEvent, the events it
    \* accepted and the events published from the queue, in order
    eventQueue, queueHead, queueTail, busPc, busOp, busRet, offered, accepted,
    published,
    \* ---- TaskScheduler (scalable_arduino/core/TaskScheduler.h)
    \* the fields tasks and taskCount, its millis(), the last operation with
    \* its argument and return value, and, as history, the number of addTask
    \* calls, the registrations the application holds (id, callback and
    \* interval of every successful addTask whose id was not removed since)
    \* and the callbacks the last update() ran
    tasks, taskCount, schedNow, schedOp, schedArg, schedRet, schedAdds,
    schedRegs, schedRan

smVars == <<currentState, previousState, stateStartTime, lastStateChange,
            onEnterState, onExitState, now, smOp, smArg, oldState, smReturn,
            hookCalls, trail, fresh, pathFromOp>>

wifiVars == <<pc, boots, cfgSSID, nvsCount, nvsKeys, env, fingerprint,
              hasCredentials, scenario, attempt, connected, retryStartTime,
              attemptedSSID, millis, portalTimeout, lastWiFiError,
              lastDisconnectReason, calls, locationChecks, ret,
              restarts>>

fpVars == <<variant, fpOp, fpScan, fpResult>>

healthVars == <<linkUp, reconnectAttempts, lastReconnectAttempt,
                wifiJustReconnected, buttonPressTime, halted, hOp, blockedMs>>

atomicVars == <<sunsetMinutesSinceMidnight, sunsetPlayedToday, lastDayOfYear,
                currentYear, currentMonth, currentDay, currentHour,
                currentMinute, coordinatesInitialized, networkTaskRunning,
                lastSuccessfulFetch>>

netVars == <<netPc, netIterations, netNow, lastFetch, netElapsed, response,
             fetchResult, atomicVars, lastDataFetch, sunsetCalc, lastSurfData,
             lane, rOp, rResult, seenTime, seenSurf>>

laneVars == <<ms, wraps, netVars>>

freshVars == <<surfData, age, freshTicks, freshOp, freshTimeout, freshResult>>

dgVars == <<dgScan, dgOp, dgResult>>

busVars == <<eventQueue, queueHead, queueTail, busPc, busOp, busRet, offered,
             accepted, published>>

schedVars == <<tasks, taskCount, schedNow, schedOp, schedArg, schedRet,
               schedAdds, schedRegs, schedRan>>

auxVars == <<dgVars, busVars, schedVars>>

restVars == <<healthVars, laneVars, freshVars, auxVars>>

vars == <<smVars, wifiVars, fpVars, restVars>>

(***************************************************************************)
(* Bounds                                                                  *)
(***************************************************************************)
MaxClock == 2
MaxTrail == 3

(***************************************************************************)
(* Part 1: StateMachine                                                    *)
(***************************************************************************)
SystemState == {"STATE_INIT", "STATE_WIFI_CONNECTING", "STATE_WIFI_CONFIG_AP",
                "STATE_OPERATIONAL", "STATE_WIFI_RECONNECTING", "STATE_ERROR"}

StateEvent == {"EVENT_BOOT_COMPLETE", "EVENT_WIFI_CONNECT_SUCCESS",
               "EVENT_WIFI_CONNECT_FAILED", "EVENT_CONFIG_MODE_ENTERED",
               "EVENT_CONFIG_COMPLETE", "EVENT_WIFI_DISCONNECTED",
               "EVENT_ERROR_OCCURRED", "EVENT_NONE"}

\* Mutant: RECONNECTING + CONNECT_FAILED goes to ERROR instead of CONFIG_AP.
SwitchTarget_FailToError(s, e) ==
    CASE s = "STATE_INIT" /\ e = "EVENT_BOOT_COMPLETE" -> "STATE_WIFI_CONNECTING"
      [] s = "STATE_WIFI_CONNECTING" /\ e = "EVENT_WIFI_CONNECT_SUCCESS" -> "STATE_OPERATIONAL"
      [] s = "STATE_WIFI_CONNECTING" /\ e = "EVENT_WIFI_CONNECT_FAILED" -> "STATE_WIFI_CONFIG_AP"
      [] s = "STATE_WIFI_CONFIG_AP" /\ e = "EVENT_CONFIG_COMPLETE" -> "STATE_WIFI_CONNECTING"
      [] s = "STATE_WIFI_CONFIG_AP" /\ e = "EVENT_WIFI_CONNECT_SUCCESS" -> "STATE_OPERATIONAL"
      [] s = "STATE_OPERATIONAL" /\ e = "EVENT_WIFI_DISCONNECTED" -> "STATE_WIFI_RECONNECTING"
      [] s = "STATE_OPERATIONAL" /\ e = "EVENT_ERROR_OCCURRED" -> "STATE_ERROR"
      [] s = "STATE_WIFI_RECONNECTING" /\ e = "EVENT_WIFI_CONNECT_SUCCESS" -> "STATE_OPERATIONAL"
      [] s = "STATE_WIFI_RECONNECTING" /\ e = "EVENT_WIFI_CONNECT_FAILED" -> "STATE_ERROR"
      [] OTHER -> "none"

\* Mutant: OPERATIONAL + WIFI_DISCONNECTED opens the portal at once.
SwitchTarget_DropToPortal(s, e) ==
    CASE s = "STATE_INIT" /\ e = "EVENT_BOOT_COMPLETE" -> "STATE_WIFI_CONNECTING"
      [] s = "STATE_WIFI_CONNECTING" /\ e = "EVENT_WIFI_CONNECT_SUCCESS" -> "STATE_OPERATIONAL"
      [] s = "STATE_WIFI_CONNECTING" /\ e = "EVENT_WIFI_CONNECT_FAILED" -> "STATE_WIFI_CONFIG_AP"
      [] s = "STATE_WIFI_CONFIG_AP" /\ e = "EVENT_CONFIG_COMPLETE" -> "STATE_WIFI_CONNECTING"
      [] s = "STATE_WIFI_CONFIG_AP" /\ e = "EVENT_WIFI_CONNECT_SUCCESS" -> "STATE_OPERATIONAL"
      [] s = "STATE_OPERATIONAL" /\ e = "EVENT_WIFI_DISCONNECTED" -> "STATE_WIFI_CONFIG_AP"
      [] s = "STATE_OPERATIONAL" /\ e = "EVENT_ERROR_OCCURRED" -> "STATE_ERROR"
      [] s = "STATE_WIFI_RECONNECTING" /\ e = "EVENT_WIFI_CONNECT_SUCCESS" -> "STATE_OPERATIONAL"
      [] s = "STATE_WIFI_RECONNECTING" /\ e = "EVENT_WIFI_CONNECT_FAILED" -> "STATE_WIFI_CONFIG_AP"
      [] OTHER -> "none"

\* Mutant: the error state is left again on a successful connection.
SwitchTarget_ErrorRecovers(s, e) ==
    CASE s = "STATE_INIT" /\ e = "EVENT_BOOT_COMPLETE" -> "STATE_WIFI_CONNECTING"
      [] s = "STATE_WIFI_CONNECTING" /\ e = "EVENT_WIFI_CONNECT_SUCCESS" -> "STATE_OPERATIONAL"
      [] s = "STATE_WIFI_CONNECTING" /\ e = "EVENT_WIFI_CONNECT_FAILED" -> "STATE_WIFI_CONFIG_AP"
      [] s = "STATE_WIFI_CONFIG_AP" /\ e = "EVENT_CONFIG_COMPLETE" -> "STATE_WIFI_CONNECTING"
      [] s = "STATE_WIFI_CONFIG_AP" /\ e = "EVENT_WIFI_CONNECT_SUCCESS" -> "STATE_OPERATIONAL"
      [] s = "STATE_OPERATIONAL" /\ e = "EVENT_WIFI_DISCONNECTED" -> "STATE_WIFI_RECONNECTING"
      [] s = "STATE_OPERATIONAL" /\ e = "EVENT_ERROR_OCCURRED" -> "STATE_ERROR"
      [] s = "STATE_WIFI_RECONNECTING" /\ e = "EVENT_WIFI_CONNECT_SUCCESS" -> "STATE_OPERATIONAL"
      [] s = "STATE_WIFI_RECONNECTING" /\ e = "EVENT_WIFI_CONNECT_FAILED" -> "STATE_WIFI_CONFIG_AP"
      [] s = "STATE_ERROR" /\ e = "EVENT_WIFI_CONNECT_SUCCESS" -> "STATE_OPERATIONAL"
      [] OTHER -> "none"

\* Mutant: an error event is honoured in every state, not only in OPERATIONAL.
SwitchTarget_ErrorAnywhere(s, e) ==
    CASE s = "STATE_INIT" /\ e = "EVENT_BOOT_COMPLETE" -> "STATE_WIFI_CONNECTING"
      [] s = "STATE_WIFI_CONNECTING" /\ e = "EVENT_WIFI_CONNECT_SUCCESS" -> "STATE_OPERATIONAL"
      [] s = "STATE_WIFI_CONNECTING" /\ e = "EVENT_WIFI_CONNECT_FAILED" -> "STATE_WIFI_CONFIG_AP"
      [] s = "STATE_WIFI_CONFIG_AP" /\ e = "EVENT_CONFIG_COMPLETE" -> "STATE_WIFI_CONNECTING"
      [] s = "STATE_WIFI_CONFIG_AP" /\ e = "EVENT_WIFI_CONNECT_SUCCESS" -> "STATE_OPERATIONAL"
      [] s = "STATE_OPERATIONAL" /\ e = "EVENT_WIFI_DISCONNECTED" -> "STATE_WIFI_RECONNECTING"
      [] s = "STATE_WIFI_RECONNECTING" /\ e = "EVENT_WIFI_CONNECT_SUCCESS" -> "STATE_OPERATIONAL"
      [] s = "STATE_WIFI_RECONNECTING" /\ e = "EVENT_WIFI_CONNECT_FAILED" -> "STATE_WIFI_CONFIG_AP"
      [] s # "STATE_ERROR" /\ e = "EVENT_ERROR_OCCURRED" -> "STATE_ERROR"
      [] OTHER -> "none"

\* The switch of processEvent: the state it calls transitionTo with in state
\* s on event e, or "none" when no branch calls transitionTo.
SwitchTarget(s, e) ==
    CASE s = "STATE_INIT" /\ e = "EVENT_BOOT_COMPLETE" -> "STATE_WIFI_CONNECTING"
      [] s = "STATE_WIFI_CONNECTING" /\ e = "EVENT_WIFI_CONNECT_SUCCESS" -> "STATE_OPERATIONAL"
      [] s = "STATE_WIFI_CONNECTING" /\ e = "EVENT_WIFI_CONNECT_FAILED" -> "STATE_WIFI_CONFIG_AP"
      [] s = "STATE_WIFI_CONFIG_AP" /\ e = "EVENT_CONFIG_COMPLETE" -> "STATE_WIFI_CONNECTING"
      [] s = "STATE_WIFI_CONFIG_AP" /\ e = "EVENT_WIFI_CONNECT_SUCCESS" -> "STATE_OPERATIONAL"
      [] s = "STATE_OPERATIONAL" /\ e = "EVENT_WIFI_DISCONNECTED" -> "STATE_WIFI_RECONNECTING"
      [] s = "STATE_OPERATIONAL" /\ e = "EVENT_ERROR_OCCURRED" -> "STATE_ERROR"
      [] s = "STATE_WIFI_RECONNECTING" /\ e = "EVENT_WIFI_CONNECT_SUCCESS" -> "STATE_OPERATIONAL"
      [] s = "STATE_WIFI_RECONNECTING" /\ e = "EVENT_WIFI_CONNECT_FAILED" -> "STATE_WIFI_CONFIG_AP"
      [] OTHER -> "none"

\* Mutant: the enter hook is invoked before the exit hook.
TransitionHooks_EnterFirst(from, to) ==
    (IF onEnterState THEN << <<"enter", to>> >> ELSE << >>)
        \o (IF onExitState THEN << <<"exit", from>> >> ELSE << >>)

\* The hook invocations of transitionTo: the exit hook with the old state,
\* then the enter hook with the new one, each only when registered.
TransitionHooks(from, to) ==
    (IF onExitState THEN << <<"exit", from>> >> ELSE << >>)
        \o (IF onEnterState THEN << <<"enter", to>> >> ELSE << >>)

\* The sliding window of the last MaxTrail states entered by processEvent.
Appended(t, s) ==
    LET u == Append(t, s)
    IN  IF Len(u) > MaxTrail THEN SubSeq(u, Len(u) - MaxTrail + 1, Len(u)) ELSE u

PathAfter(p, to) ==
    IF to = "STATE_OPERATIONAL" THEN "direct"
    ELSE IF to = "STATE_WIFI_RECONNECTING" /\ p # "none" THEN "viaRecovering"
    ELSE p

\* transitionTo(newState, event): a transition to the current state returns
\* early; otherwise exit hook, state update and both timestamps, enter hook.
\* The two millis() reads may straddle a tick (d).
TransitionTo(newState, d) ==
    IF newState = currentState
    THEN /\ UNCHANGED <<currentState, previousState, stateStartTime,
                        lastStateChange, now, trail, pathFromOp>>
         /\ hookCalls' = << >>
    ELSE /\ previousState' = currentState
         /\ currentState' = newState
         /\ stateStartTime' = now
         /\ lastStateChange' = now + d
         /\ now' = now + d
         /\ hookCalls' = TransitionHooks(currentState, newState)
         /\ trail' = Appended(trail, newState)
         /\ pathFromOp' = PathAfter(pathFromOp, newState)

\* bool processEvent(StateEvent event)
ProcessEvent(event) ==
    /\ smOp' = "processEvent"
    /\ smArg' = event
    /\ oldState' = currentState
    /\ IF SwitchTarget(currentState, event) = "none"
       THEN /\ UNCHANGED <<currentState, previousState, stateStartTime,
                           lastStateChange, now, trail, pathFromOp>>
            /\ hookCalls' = << >>
       ELSE \E d \in {0, 1} :
                /\ now + d <= MaxClock
                /\ TransitionTo(SwitchTarget(currentState, event), d)
    /\ smReturn' = (currentState # currentState')
    /\ UNCHANGED <<onEnterState, onExitState, fresh>>
    /\ UNCHANGED <<wifiVars, fpVars, restVars>>

\* void forceState(SystemState newState): no hooks, no same-state check.
ForceState(newState) ==
    \E d \in {0, 1} :
        /\ now + d <= MaxClock
        /\ smOp' = "forceState"
        /\ smArg' = newState
        /\ previousState' = currentState
        /\ currentState' = newState
        /\ stateStartTime' = now
        /\ lastStateChange' = now + d
        /\ now' = now + d
        /\ hookCalls' = << >>
        /\ trail' = <<newState>>
        /\ fresh' = FALSE
        /\ pathFromOp' = "none"
        /\ UNCHANGED <<oldState, smReturn, onEnterState, onExitState>>
        /\ UNCHANGED <<wifiVars, fpVars, restVars>>

\* setOnEnterState / setOnExitState with a non-null callback.
SetOnEnterState ==
    /\ ~onEnterState
    /\ onEnterState' = TRUE
    /\ UNCHANGED <<currentState, previousState, stateStartTime, lastStateChange,
                   onExitState, now, smOp, smArg, oldState, smReturn, hookCalls,
                   trail, fresh, pathFromOp>>
    /\ UNCHANGED <<wifiVars, fpVars, restVars>>

SetOnExitState ==
    /\ ~onExitState
    /\ onExitState' = TRUE
    /\ UNCHANGED <<currentState, previousState, stateStartTime, lastStateChange,
                   onEnterState, now, smOp, smArg, oldState, smReturn, hookCalls,
                   trail, fresh, pathFromOp>>
    /\ UNCHANGED <<wifiVars, fpVars, restVars>>

\* millis() advances between operations.
Tick ==
    /\ now < MaxClock
    /\ now' = now + 1
    /\ UNCHANGED <<currentState, previousState, stateStartTime, lastStateChange,
                   onEnterState, onExitState, smOp, smArg, oldState, smReturn,
                   hookCalls, trail, fresh, pathFromOp>>
    /\ UNCHANGED <<wifiVars, fpVars, restVars>>

\* StateMachine(): both states INIT, lastStateChange 0, stateStartTime =
\* millis(), no callbacks.
ConstructedSM ==
    /\ now \in {0, 1}
    /\ currentState = "STATE_INIT"
    /\ previousState = "STATE_INIT"
    /\ stateStartTime = now
    /\ lastStateChange = 0
    /\ onEnterState = FALSE
    /\ onExitState = FALSE
    /\ smOp = "construct"
    /\ smArg = "EVENT_NONE"
    /\ oldState = "STATE_INIT"
    /\ smReturn = FALSE
    /\ hookCalls = << >>
    /\ trail = <<"STATE_INIT">>
    /\ fresh = TRUE
    /\ pathFromOp = "none"

\* The device before setup() has run: nothing of setupWiFi has executed.
\* The scan field of an operation that made no scan.
NoScan == [num |-> -1, aps |-> << >>]

\* No operation on the fingerprint object has been observed.
HealthIdle ==
    /\ linkUp = TRUE
    /\ reconnectAttempts = 0
    /\ lastReconnectAttempt = 0
    /\ wifiJustReconnected = FALSE
    /\ buttonPressTime = 0
    /\ halted = FALSE
    /\ hOp = "none"
    /\ blockedMs = 0

\* The globals of DualCoreManager.cpp:14-26, the SunsetCalculator constructor
\* on a device without stored coordinates, and SurfData's constructor.
NoResponse == [ok |-> FALSE, date |-> << >>, json |-> "none"]

ClockIdle ==
    /\ ms = <<0, 0>>
    /\ wraps = 0

\* SurfData's constructor (SurfDataModel.h:37-48)
FreshIdle ==
    /\ surfData = [dataReceived |-> FALSE, lastUpdate |-> <<0, 0>>]
    /\ age = 0
    /\ freshTicks = 0
    /\ freshOp = "none"
    /\ freshTimeout = 0
    /\ freshResult = FALSE

NetCreated ==
    /\ netPc = "created"
    /\ netIterations = 0
    /\ netNow = <<0, 0>>
    /\ lastFetch = <<0, 0>>
    /\ netElapsed = <<0, 0>>
    /\ response = NoResponse
    /\ fetchResult = FALSE
    /\ sunsetMinutesSinceMidnight = -1
    /\ sunsetPlayedToday = FALSE
    /\ lastDayOfYear = 0
    /\ currentYear = 2025
    /\ currentMonth = 1
    /\ currentDay = 1
    /\ currentHour = 0
    /\ currentMinute = 0
    /\ coordinatesInitialized = FALSE
    /\ networkTaskRunning = FALSE
    /\ lastSuccessfulFetch = <<0, 0>>
    /\ lastDataFetch = <<0, 0>>
    /\ sunsetCalc = [coordinates |-> "none", tz_offset |-> 0,
                     sunsetMinutesSinceMidnight |-> -1,
                     sunsetPlayedToday |-> FALSE, lastDayOfYear |-> 0,
                     currentTime |-> [year |-> 0, month |-> 0, day |-> 0,
                                      hour |-> 0, minute |-> 0],
                     timeInitialized |-> FALSE]
    /\ lastSurfData = [waveHeight |-> 0, waveThreshold |-> 100,
                       dataReceived |-> FALSE, needsDisplayUpdate |-> FALSE,
                       lastUpdate |-> <<0, 0>>]
    /\ lane = "none"
    /\ rOp = "none"
    /\ rResult = FALSE
    /\ seenTime = << >>
    /\ seenSurf = << >>

LaneIdle == ClockIdle /\ NetCreated

DgIdle ==
    /\ dgScan = NoScan
    /\ dgOp = "none"
    /\ dgResult = ""

\* EventBus(): queueHead(0), queueTail(0); eventQueue is not initialised
\* and not read before it is written.
QUEUE_SIZE == 10

NoEvent == [type |-> "none", data |-> 0]

BusIdle ==
    /\ eventQueue = [i \in 0..(QUEUE_SIZE - 1) |-> NoEvent]
    /\ queueHead = 0
    /\ queueTail = 0
    /\ busPc = "idle"
    /\ busOp = "construct"
    /\ busRet = FALSE
    /\ offered = 0
    /\ accepted = << >>
    /\ published = << >>

\* TaskScheduler(): taskCount(0), every slot disabled; the other fields of
\* a slot are not initialised and not read while it is disabled.
MAX_TASKS == 15

NoTask == [callback |-> "none", interval |-> 0, lastRun |-> 0, enabled |-> FALSE]

SchedIdle ==
    /\ tasks = [i \in 0..(MAX_TASKS - 1) |-> NoTask]
    /\ taskCount = 0
    /\ schedNow = 1
    /\ schedOp = "construct"
    /\ schedArg = -1
    /\ schedRet = -1
    /\ schedAdds = 0
    /\ schedRegs = {}
    /\ schedRan = << >>

AuxIdle == DgIdle /\ BusIdle /\ SchedIdle

RestIdle ==
    /\ HealthIdle
    /\ LaneIdle
    /\ FreshIdle

FpIdle ==
    /\ variant = "any"
    /\ fpOp = "none"
    /\ fpScan = NoScan
    /\ fpResult = FALSE

WiFiIdle ==
    /\ FpIdle
    /\ pc = "boot"
    /\ boots = 0
    /\ cfgSSID = ""
    /\ nvsCount = 0
    /\ nvsKeys = [i \in 0..3 |-> ""]
    /\ env = {}
    /\ fingerprint = << >>
    /\ hasCredentials = FALSE
    /\ scenario = "FIRST_SETUP"
    /\ attempt = 0
    /\ connected = FALSE
    /\ retryStartTime = 0
    /\ attemptedSSID = ""
    /\ millis = 0
    /\ portalTimeout = 0
    /\ lastWiFiError = ""
    /\ lastDisconnectReason = 0
    /\ calls = << >>
    /\ locationChecks = 0
    /\ ret = FALSE
    /\ restarts = 0

InitSM == ConstructedSM /\ AuxIdle /\ WiFiIdle /\ RestIdle

NextSM ==
    \/ \E e \in StateEvent : ProcessEvent(e)
    \/ \E s \in SystemState : ForceState(s)
    \/ SetOnEnterState
    \/ SetOnExitState
    \/ Tick

SpecSM == InitSM /\ [][NextSM]_vars

(***************************************************************************)
(* Claims about the StateMachine (checked under SpecSM)                    *)
(***************************************************************************)
\* The transition table as the specification documents it (section 4.1),
\* written out independently of SwitchTarget: <<state, event, next state>>.
DocumentedTable ==
    { <<"STATE_INIT", "EVENT_BOOT_COMPLETE", "STATE_WIFI_CONNECTING">>,
      <<"STATE_WIFI_CONNECTING", "EVENT_WIFI_CONNECT_SUCCESS", "STATE_OPERATIONAL">>,
      <<"STATE_WIFI_CONNECTING", "EVENT_WIFI_CONNECT_FAILED", "STATE_WIFI_CONFIG_AP">>,
      <<"STATE_WIFI_CONFIG_AP", "EVENT_CONFIG_COMPLETE", "STATE_WIFI_CONNECTING">>,
      <<"STATE_WIFI_CONFIG_AP", "EVENT_WIFI_CONNECT_SUCCESS", "STATE_OPERATIONAL">>,
      <<"STATE_OPERATIONAL", "EVENT_WIFI_DISCONNECTED", "STATE_WIFI_RECONNECTING">>,
      <<"STATE_OPERATIONAL", "EVENT_ERROR_OCCURRED", "STATE_ERROR">>,
      <<"STATE_WIFI_RECONNECTING", "EVENT_WIFI_CONNECT_SUCCESS", "STATE_OPERATIONAL">>,
      <<"STATE_WIFI_RECONNECTING", "EVENT_WIFI_CONNECT_FAILED", "STATE_WIFI_CONFIG_AP">> }

InTable(s, e) == \E t \in DocumentedTable : t[1] = s /\ t[2] = e

\* C1: processEvent implements exactly the documented transition table: after
\* a processEvent call made in state oldState with event smArg, the current
\* state is the table's next state when the pair is in the table and oldState
\* otherwise; and a fresh machine that has seen only processEvent calls
\* leaves INIT to WIFI_CONNECTING only, and from there goes to OPERATIONAL or
\* WIFI_CONFIG_AP only (BOOT_COMPLETE then CONNECT_FAILED gives Init,
\* Acquiring, ConfigPortal).
C1_TransitionTable ==
    /\ smOp = "processEvent" =>
          /\ \A t \in DocumentedTable :
                (t[1] = oldState /\ t[2] = smArg) => currentState = t[3]
          /\ ~InTable(oldState, smArg) => currentState = oldState
    /\ (fresh /\ trail[1] = "STATE_INIT" /\ Len(trail) >= 2) =>
          trail[2] = "STATE_WIFI_CONNECTING"
    /\ (fresh /\ trail[1] = "STATE_INIT" /\ Len(trail) >= 3) =>
          trail[3] \in {"STATE_OPERATIONAL", "STATE_WIFI_CONFIG_AP"}
    /\ (fresh /\ trail[1] = "STATE_INIT" /\ Len(trail) >= 3
          /\ smOp = "processEvent" /\ smArg = "EVENT_WIFI_CONNECT_FAILED"
          /\ smReturn /\ trail[Len(trail)] = trail[3]) =>
          trail = <<"STATE_INIT", "STATE_WIFI_CONNECTING", "STATE_WIFI_CONFIG_AP">>

\* C1 witness: a fresh machine got BOOT_COMPLETE, then CONNECT_FAILED.
C1_Witness ==
    /\ fresh
    /\ trail = <<"STATE_INIT", "STATE_WIFI_CONNECTING", "STATE_WIFI_CONFIG_AP">>
    /\ smOp = "processEvent"
    /\ smArg = "EVENT_WIFI_CONNECT_FAILED"
    /\ oldState = "STATE_WIFI_CONNECTING"
    /\ smReturn

\* C2: under processEvent, WIFI_CONFIG_AP is never the immediate successor of
\* OPERATIONAL and ERROR never the immediate successor of WIFI_RECONNECTING;
\* link-dropped in OPERATIONAL yields WIFI_RECONNECTING, connect-failed in
\* WIFI_RECONNECTING yields WIFI_CONFIG_AP, and every processEvent path from
\* OPERATIONAL to WIFI_CONFIG_AP passes through WIFI_RECONNECTING.
C2_NoDirectPortalNoFaultFromRecovering ==
    /\ \A i \in 1..(Len(trail) - 1) :
          /\ ~(trail[i] = "STATE_OPERATIONAL" /\ trail[i + 1] = "STATE_WIFI_CONFIG_AP")
          /\ ~(trail[i] = "STATE_WIFI_RECONNECTING" /\ trail[i + 1] = "STATE_ERROR")
    /\ (smOp = "processEvent" /\ oldState = "STATE_OPERATIONAL"
          /\ smArg = "EVENT_WIFI_DISCONNECTED") => currentState = "STATE_WIFI_RECONNECTING"
    /\ (smOp = "processEvent" /\ oldState = "STATE_WIFI_RECONNECTING"
          /\ smArg = "EVENT_WIFI_CONNECT_FAILED") => currentState = "STATE_WIFI_CONFIG_AP"
    /\ (currentState = "STATE_WIFI_CONFIG_AP" /\ pathFromOp # "none") =>
          pathFromOp = "viaRecovering"

\* C2 witness: OPERATIONAL, link dropped, reconnection failed.
C2_Witness ==
    /\ trail = <<"STATE_OPERATIONAL", "STATE_WIFI_RECONNECTING", "STATE_WIFI_CONFIG_AP">>
    /\ pathFromOp = "viaRecovering"
    /\ smOp = "processEvent"
    /\ smArg = "EVENT_WIFI_CONNECT_FAILED"

C4_IllegalPairNoOp ==
    [][ \A e \in StateEvent :
          (ProcessEvent(e) /\ ~InTable(currentState, e)) =>
             /\ UNCHANGED <<currentState, previousState, stateStartTime, lastStateChange>>
             /\ smReturn' = FALSE
             /\ hookCalls' = << >> ]_vars

\* C4 witness: with both hooks registered and the clock past the last state
\* change, CONNECT_FAILED was processed in OPERATIONAL.
C4_Witness ==
    /\ smOp = "processEvent"
    /\ oldState = "STATE_OPERATIONAL"
    /\ smArg = "EVENT_WIFI_CONNECT_FAILED"
    /\ onEnterState /\ onExitState
    /\ now > lastStateChange
    /\ ~smReturn

(***************************************************************************)
(* Part 2: setupWiFi and WiFiFingerprinting                                *)
(***************************************************************************)
MaxBoots == 1
MaxCalls == 3

\* WiFiTimeouts, WiFiDelays and MAX_WIFI_RETRIES of WiFiHandler.cpp;
\* MAX_NEIGHBORS of WiFiFingerprinting.h.
MAX_WIFI_RETRIES == 10
PORTAL_TIMEOUT_GENEROUS_SEC == 1020
INITIAL_CONNECTION_TIMEOUT_SEC == 20
MAX_CONNECTION_TIMEOUT_SEC == 60
ROUTER_REBOOT_TIMEOUT_MS == 300000
INITIAL_RETRY_DELAY_SEC == 5
MAX_RETRY_DELAY_SEC == 60
LOCATION_CHECK_DISPLAY_MS == 1000
RESTART_DELAY_MS == 3000
CONNECTION_POLL_MS == 500
MAX_NEIGHBORS == 4

Min(a, b) == IF a < b THEN a ELSE b

RECURSIVE Pow2(_)
Pow2(n) == IF n <= 0 THEN 1 ELSE 2 * Pow2(n - 1)

\* ---- the radio environment ---------------------------------------------
\* Access points: the target network as a scan may show it (strong, weak,
\* WPA3-only) and neighbours of two places.
TargetAPs == {"T_strong", "T_weak", "T_wpa3"}
NeighbourAPs == {"A", "A2", "A3", "B", "X", "Y", "Z", "V", "W", "Hidden"}
TargetSSID == "T"

\* A2 and A3 are further access points of network A; Hidden broadcasts no
\* SSID; T_far3 is a distant WPA3-only access point of the target network.
ApSSID(ap) ==
    IF ap \in TargetAPs \cup {"T_far3"} THEN TargetSSID
    ELSE IF ap \in {"A2", "A3"} THEN "A"
    ELSE IF ap = "Hidden" THEN ""
    ELSE ap

ApRSSI(ap) ==
    CASE ap = "T_strong" -> -50
      [] ap = "T_weak" -> -90
      [] ap = "T_wpa3" -> -52
      [] ap = "T_far3" -> -88
      [] ap = "A" -> -55
      [] ap = "A2" -> -56
      [] ap = "A3" -> -57
      [] ap = "Hidden" -> -58
      [] ap = "B" -> -60
      [] ap = "X" -> -65
      [] ap = "Y" -> -70
      [] ap = "Z" -> -75
      [] ap = "V" -> -80
      [] ap = "W" -> -82

ApAuth(ap) ==
    IF ap \in {"T_wpa3", "T_far3"} THEN "WIFI_AUTH_WPA3_PSK"
    ELSE "WIFI_AUTH_WPA2_PSK"

\* The places the device may be in: what is in range besides the target.
Neighbourhoods ==
    { {}, {"A", "B", "X", "Y", "Z"}, {"X", "Y", "Z", "V", "W"} }

\* The places a stored record may come from.
RecordPlaces ==
    { {"A"}, {"A", "B"}, {"A", "B", "X"}, {"A", "B", "X", "Y", "Z"} }

\* WiFi.scanNetworks() lists the access points strongest first.
RECURSIVE ByRSSI(_)
ByRSSI(S) ==
    IF S = {} THEN << >>
    ELSE LET best == CHOOSE a \in S : \A b \in S : ApRSSI(b) <= ApRSSI(a)
         IN  <<best>> \o ByRSSI(S \ {best})

\* What one call of WiFi.scanNetworks() may give in a neighbourhood: the
\* neighbours with or without the target, no network at all (num = 0), or
\* the library's failure code (num < 0, WIFI_SCAN_FAILED).
ScansOf(place) ==
    { [num |-> Cardinality(place), aps |-> ByRSSI(place)] }
    \cup { [num |-> Cardinality(place) + 1, aps |-> ByRSSI(place \cup {t})] : t \in TargetAPs }
    \cup { [num |-> 0, aps |-> << >>], [num |-> -2, aps |-> << >>] }

\* The scans of every place, computed once.
ScanTable == [place \in Neighbourhoods |-> ScansOf(place)]

ScanResults(place) == ScanTable[place]

\* ---- WiFiFingerprinting ------------------------------------------------
\* Mutant: load() reads every key that holds an SSID, whatever "count" says.
FingerprintLoad_EveryKey(count, keys) ==
    LET last == IF \E i \in 0..3 : keys[i] # ""
                THEN 1 + CHOOSE i \in 0..3 : keys[i] # "" /\ \A k \in (i + 1)..3 : keys[k] = ""
                ELSE 0
    IN  [i \in 1..last |-> keys[i - 1]]

\* load(): count from key "count", neighbors[i] from key "n<i>" for i < count.
FingerprintLoad(count, keys) == [i \in 1..count |-> keys[i - 1]]

\* Mutant: update() does not skip the connected network.
RECURSIVE CollectNeighbors_KeepsTarget(_, _, _)
CollectNeighbors_KeepsTarget(aps, target, acc) ==
    IF aps = << >> \/ Len(acc) >= MAX_NEIGHBORS THEN acc
    ELSE LET ssid == ApSSID(Head(aps))
         IN  IF ssid = ""
             THEN CollectNeighbors_KeepsTarget(Tail(aps), target, acc)
             ELSE CollectNeighbors_KeepsTarget(Tail(aps), target, Append(acc, ssid))

\* Mutant: the loop of update() starts at the second entry of the scan.
RECURSIVE CollectNeighbors_SkipsFirst(_, _, _)
CollectNeighbors_SkipsFirst(aps, target, acc) ==
    LET rest == IF acc = << >> /\ aps # << >> THEN Tail(aps) ELSE aps
    IN  IF rest = << >> \/ Len(acc) >= MAX_NEIGHBORS THEN acc
        ELSE LET ssid == ApSSID(Head(rest))
             IN  IF ssid = "" \/ ssid = target
                 THEN CollectNeighbors_SkipsFirst(Tail(rest), target, acc)
                 ELSE CollectNeighbors_SkipsFirst(Tail(rest), target, Append(acc, ssid))

\* Mutant: update() stores every candidate of the scan.
RECURSIVE CollectNeighbors_Uncapped(_, _, _)
CollectNeighbors_Uncapped(aps, target, acc) ==
    IF aps = << >> THEN acc
    ELSE LET ssid == ApSSID(Head(aps))
         IN  IF ssid = "" \/ ssid = target
             THEN CollectNeighbors_Uncapped(Tail(aps), target, acc)
             ELSE CollectNeighbors_Uncapped(Tail(aps), target, Append(acc, ssid))

\* The loop of update(): the first MAX_NEIGHBORS entries of the scan whose
\* SSID is neither empty nor the target's.
RECURSIVE CollectNeighbors(_, _, _)
CollectNeighbors(aps, target, acc) ==
    IF aps = << >> \/ Len(acc) >= MAX_NEIGHBORS THEN acc
    ELSE LET ssid == ApSSID(Head(aps))
         IN  IF ssid = "" \/ ssid = target
             THEN CollectNeighbors(Tail(aps), target, acc)
             ELSE CollectNeighbors(Tail(aps), target, Append(acc, ssid))

\* update(): unchanged when the scan gives 0 networks, else the collected
\* neighbours replace the record.
FingerprintUpdate(fp, scan, target) ==
    IF scan.num = 0 THEN fp ELSE CollectNeighbors(scan.aps, target, << >>)

\* Mutant: the location check demands that every visible network is stored.
IsSameLocation_AllKnown(fp, scan) ==
    IF Len(fp) = 0 THEN FALSE
    ELSE IF scan.num = 0 THEN TRUE
    ELSE \A i \in 1..Len(scan.aps) : \E j \in 1..Len(fp) : ApSSID(scan.aps[i]) = fp[j]

\* Mutant: the check on the empty record is missing.
IsSameLocation_NoEmptyCheck(fp, scan) ==
    IF scan.num = 0 THEN TRUE
    ELSE \E i \in 1..Len(scan.aps) : \E j \in 1..Len(fp) : ApSSID(scan.aps[i]) = fp[j]

\* Mutant: the inner loop looks at neighbors[0] only.
IsSameLocation_FirstEntryOnly(fp, scan) ==
    IF Len(fp) = 0 THEN FALSE
    ELSE IF scan.num = 0 THEN TRUE
    ELSE \E i \in 1..Len(scan.aps) : ApSSID(scan.aps[i]) = fp[1]

\* isSameLocation(), any-match variant: false on an empty record, true when
\* the scan gives 0 networks, else whether some visible SSID is stored.
IsSameLocation(fp, scan) ==
    IF Len(fp) = 0 THEN FALSE
    ELSE IF scan.num = 0 THEN TRUE
    ELSE \E i \in 1..Len(scan.aps) : \E j \in 1..Len(fp) : ApSSID(scan.aps[i]) = fp[j]

\* ---- diagnostics ---------------------------------------------------------
\* getDisconnectReasonText for the reason codes the model draws.
DisconnectReasons == {2, 201}

GetDisconnectReasonText(reason) ==
    CASE reason = 2 -> "Wrong password or WiFi name"
      [] reason = 201 -> "WiFi signal lost - router may be off or out of range"
      [] OTHER -> "Connection failed"

\* The loop of diagnoseSSID over the scan entries from i on: the index and
\* the RSSI of the target entry with the strongest signal so far
\* (if (ssid == targetSSID) if (rssi > bestRSSI) ...).
RECURSIVE BestSignal(_, _, _, _)
BestSignal(aps, target, i, best) ==
    IF i > Len(aps) THEN best
    ELSE IF ApSSID(aps[i]) = target /\ ApRSSI(aps[i]) > best.rssi
    THEN BestSignal(aps, target, i + 1, [index |-> i, rssi |-> ApRSSI(aps[i])])
    ELSE BestSignal(aps, target, i + 1, best)

\* Mutant: the security mode is checked before the signal strength.
DiagnoseSSID_SecurityFirst(scan, target) ==
    IF scan.num = 0 THEN "No WiFi networks found"
    ELSE LET best == BestSignal(scan.aps, target, 1, [index |-> -1, rssi |-> -127])
         IN  IF best.index = -1 THEN "Network not found"
             ELSE IF ApAuth(scan.aps[best.index]) = "WIFI_AUTH_WPA3_PSK"
             THEN "Router uses WPA3 security"
             ELSE IF best.rssi < -85 THEN "Weak signal"
             ELSE ""

\* diagnoseSSID on a scan result: the message class, "" when all checks pass.
DiagnoseSSID(scan, target) ==
    IF scan.num = 0 THEN "No WiFi networks found"
    ELSE LET best == BestSignal(scan.aps, target, 1, [index |-> -1, rssi |-> -127])
         IN  IF best.index = -1 THEN "Network not found"
             ELSE IF best.rssi < -85 THEN "Weak signal"
             ELSE IF ApAuth(scan.aps[best.index]) = "WIFI_AUTH_WPA3_PSK"
             THEN "Router uses WPA3 security"
             ELSE ""

\* ---- setupWiFi -----------------------------------------------------------
\* Mutant: a stored fingerprint makes the boot count as a router reboot.
ScenarioOf_FingerprintCounts(hasCreds) ==
    IF hasCreds \/ nvsCount > 0 THEN "ROUTER_REBOOT" ELSE "FIRST_SETUP"

\* scenario = hasCredentials ? ROUTER_REBOOT : FIRST_SETUP
ScenarioOf(hasCreds) == IF hasCreds THEN "ROUTER_REBOOT" ELSE "FIRST_SETUP"

\* Mutant: the expired budget returns false to the caller (who restarts).
OnBudgetElapsed_ReturnFalse == "returned"

\* Where the loop goes when the ROUTER_REBOOT budget has elapsed: break.
OnBudgetElapsed == "after_loop"

\* Mutant: diagnostics and the location check run without a captured SSID.
HasTargetSSID_Always(ssid) == TRUE

\* attemptedSSID.length() != 0
HasTargetSSID(ssid) == ssid # ""

\* Mutant: every scenario restarts when no SSID was captured.
RestartsWithoutSSID_Always(scn) == TRUE

\* scenario == FIRST_SETUP || scenario == NEW_LOCATION
RestartsWithoutSSID(scn) == scn \in {"FIRST_SETUP", "NEW_LOCATION"}

\* Mutant: a new location does not end the retry loop.
AbortsRetryLoop_Never(same) == FALSE

\* Mutant: a "Network not found" diagnosis ends the retry loop as well.
AbortsRetryLoop_OnDiagnostic(same) == ~same \/ lastWiFiError = "Network not found"

\* if (!fingerprinting.isSameLocation()) ... break
AbortsRetryLoop(same) == ~same

\* Mutant: the elapsed time is never found to exceed the budget.
BudgetElapsed_Never(elapsed) == FALSE

\* elapsed >= WiFiTimeouts::ROUTER_REBOOT_TIMEOUT_MS
BudgetElapsed(elapsed) == elapsed >= ROUTER_REBOOT_TIMEOUT_MS

\* Mutant: every scenario connects through autoConnect and its portal.
UsesSavedCredentials_Never(scn) == FALSE

\* if (scenario == ROUTER_REBOOT) WiFi.begin() else autoConnect()
UsesSavedCredentials(scn) == scn = "ROUTER_REBOOT"

\* Mutant: the connection timeout doubles without the cap.
ConnectionTimeoutSec_Uncapped(n) == INITIAL_CONNECTION_TIMEOUT_SEC * Pow2(n - 1)

\* min(INITIAL_CONNECTION_TIMEOUT_SEC * (int)pow(2, attempt - 1), MAX_CONNECTION_TIMEOUT_SEC)
ConnectionTimeoutSec(n) ==
    Min(INITIAL_CONNECTION_TIMEOUT_SEC * Pow2(n - 1), MAX_CONNECTION_TIMEOUT_SEC)

\* min(INITIAL_RETRY_DELAY_SEC * (int)pow(2, attempt - 1), MAX_RETRY_DELAY_SEC)
RetryDelaySec(n) ==
    Min(INITIAL_RETRY_DELAY_SEC * Pow2(n - 1), MAX_RETRY_DELAY_SEC)

\* Mutant: the result of startConfigPortal is ignored.
PortalFailed_Ignored(ok) == FALSE

\* if (!wifiManager.startConfigPortal(...)) return false
PortalFailed(ok) == ~ok

\* The window of the last MaxCalls network actions.
Logged(c, ok, num) ==
    LET u == Append(calls, [call |-> c, ok |-> ok, num |-> num])
    IN  IF Len(u) > MaxCalls THEN SubSeq(u, Len(u) - MaxCalls + 1, Len(u)) ELSE u

\* setupWiFi up to the retry loop: reset the error, load the fingerprint,
\* read the stored credentials, pick the scenario and the portal timeout.
SetupBegin ==
    /\ pc = "boot"
    /\ lastWiFiError' = ""
    /\ fingerprint' = FingerprintLoad(nvsCount, nvsKeys)
    /\ hasCredentials' = (cfgSSID # "")
    /\ scenario' = ScenarioOf(hasCredentials')
    /\ portalTimeout' = IF scenario' = "FIRST_SETUP" THEN PORTAL_TIMEOUT_GENEROUS_SEC ELSE 0
    /\ connected' = FALSE
    /\ retryStartTime' = millis
    /\ attempt' = 0
    /\ pc' = "loop"
    /\ UNCHANGED <<boots, cfgSSID, nvsCount, nvsKeys, env, attemptedSSID, millis,
                   lastDisconnectReason, calls, locationChecks, ret,
                   restarts>>
    /\ UNCHANGED <<smVars, fpVars, restVars>>

\* The head of one loop iteration: count the attempt, leave the loop when
\* the ROUTER_REBOOT budget has elapsed or FIRST_SETUP had its one attempt,
\* set the portal timeout for HAS_CREDENTIALS.
LoopHead ==
    /\ pc = "loop"
    /\ ~connected
    /\ attempt' = attempt + 1
    /\ IF scenario = "ROUTER_REBOOT" /\ BudgetElapsed(millis - retryStartTime)
       THEN portalTimeout' = 0 /\ pc' = OnBudgetElapsed
       ELSE IF scenario = "HAS_CREDENTIALS"
       THEN /\ portalTimeout' = IF attempt' < MAX_WIFI_RETRIES
                                THEN PORTAL_TIMEOUT_GENEROUS_SEC ELSE 0
            /\ pc' = "connect"
       ELSE IF scenario = "FIRST_SETUP" /\ attempt' > 1
       THEN pc' = "after_loop" /\ UNCHANGED portalTimeout
       ELSE pc' = "connect" /\ UNCHANGED portalTimeout
    /\ UNCHANGED <<boots, cfgSSID, nvsCount, nvsKeys, env, fingerprint,
                   hasCredentials, scenario, connected, retryStartTime,
                   attemptedSSID, millis, lastWiFiError, lastDisconnectReason,
                   calls, locationChecks, ret, restarts>>
    /\ UNCHANGED <<smVars, fpVars, restVars>>

\* ROUTER_REBOOT: WiFi.begin() and the wait of min(20 * 2^(attempt-1), 60) s.
\* The STA_CONNECTED event clears lastWiFiError; a failed wait has seen a
\* STA_DISCONNECTED event, which stores the reason and its text.
ConnectSaved ==
    /\ pc = "connect"
    /\ UsesSavedCredentials(scenario)
    /\ LET timeout == ConnectionTimeoutSec(attempt)
       IN  \/ /\ connected' = TRUE
              /\ millis' = millis + CONNECTION_POLL_MS
              /\ lastWiFiError' = ""
              /\ calls' = Logged("WiFi.begin", TRUE, 0)
              /\ pc' = "after_loop"
              /\ UNCHANGED lastDisconnectReason
           \/ \E r \in DisconnectReasons :
                 /\ connected' = FALSE
                 /\ millis' = millis + timeout * 1000
                 /\ lastDisconnectReason' = r
                 /\ lastWiFiError' = GetDisconnectReasonText(r)
                 /\ calls' = Logged("WiFi.begin", FALSE, timeout)
                 /\ pc' = "failed"
    /\ UNCHANGED <<boots, cfgSSID, nvsCount, nvsKeys, env, fingerprint,
                   hasCredentials, scenario, attempt, retryStartTime,
                   attemptedSSID, portalTimeout, locationChecks,
                   ret, restarts>>
    /\ UNCHANGED <<smVars, fpVars, restVars>>

\* Other scenarios: wifiManager.autoConnect(), which opens the portal. It
\* returns true once credentials entered in the portal connect, and false
\* when the portal timeout runs out, whether or not credentials were
\* submitted (and rejected) meanwhile.
ConnectPortal ==
    /\ pc = "connect"
    /\ ~UsesSavedCredentials(scenario)
    /\ \/ /\ connected' = TRUE
          /\ cfgSSID' = TargetSSID
          /\ millis' = millis + CONNECTION_POLL_MS
          /\ lastWiFiError' = ""
          /\ calls' = Logged("autoConnect", TRUE, 0)
          /\ pc' = "after_loop"
          /\ UNCHANGED lastDisconnectReason
       \/ /\ portalTimeout > 0
          /\ connected' = FALSE
          /\ millis' = millis + portalTimeout * 1000
          /\ calls' = Logged("autoConnect", FALSE, 0)
          /\ pc' = "failed"
          /\ \/ UNCHANGED <<cfgSSID, lastDisconnectReason, lastWiFiError>>
             \/ \E r \in DisconnectReasons :
                   /\ cfgSSID' = TargetSSID
                   /\ lastDisconnectReason' = r
                   /\ lastWiFiError' = GetDisconnectReasonText(r)
    /\ UNCHANGED <<boots, nvsCount, nvsKeys, env, fingerprint, hasCredentials,
                   scenario, attempt, retryStartTime, attemptedSSID,
                   portalTimeout, locationChecks, ret, restarts>>
    /\ UNCHANGED <<smVars, fpVars, restVars>>

\* After a failed attempt: read the attempted SSID (WiFi.SSID() gives the
\* configured SSID, or nothing while not connected). Without one, FIRST_SETUP
\* restarts the device and the other scenarios go on to the retry delay;
\* with one, diagnoseSSID scans and its message, if any, is stored.
Diagnose ==
    /\ pc = "failed"
    /\ \E s \in {"", cfgSSID} :
          /\ attemptedSSID' = s
          /\ IF ~HasTargetSSID(s)
             THEN /\ IF RestartsWithoutSSID(scenario)
                     THEN /\ millis' = millis + RESTART_DELAY_MS
                          /\ calls' = Logged("ESP.restart", TRUE, 0)
                          /\ restarts' = restarts + 1
                          /\ pc' = "restarted"
                     ELSE /\ pc' = "delay"
                          /\ UNCHANGED <<millis, calls, restarts>>
                  /\ UNCHANGED lastWiFiError
             ELSE \E scan \in ScanResults(env) :
                     /\ lastWiFiError' = IF DiagnoseSSID(scan, s) # ""
                                         THEN DiagnoseSSID(scan, s) ELSE lastWiFiError
                     /\ calls' = Logged("diagnoseSSID", DiagnoseSSID(scan, s) = "", 0)
                     /\ UNCHANGED millis
                     /\ pc' = "locate"
                     /\ UNCHANGED restarts
    /\ UNCHANGED <<boots, cfgSSID, nvsCount, nvsKeys, env, fingerprint,
                   hasCredentials, scenario, attempt, connected, retryStartTime,
                   portalTimeout, lastDisconnectReason, locationChecks, ret>>
    /\ UNCHANGED <<smVars, fpVars, restVars>>

\* The location check after the diagnosis: one second of purple, then
\* isSameLocation() (which scans only when a record is stored); a new
\* location stores its message and breaks out of the loop.
CheckLocation ==
    /\ pc = "locate"
    /\ \E scan \in ScanResults(env) :
          LET same == IsSameLocation(fingerprint, scan)
              scanned == Len(fingerprint) # 0
          IN  /\ scanned \/ scan.num = 0
              /\ millis' = millis + LOCATION_CHECK_DISPLAY_MS
              /\ locationChecks' = locationChecks + 1
              /\ calls' = Logged("isSameLocation", same,
                                 IF scanned THEN scan.num ELSE -1)
              /\ IF AbortsRetryLoop(same)
                 THEN /\ lastWiFiError' = "Moved to new location. Please reconfigure WiFi."
                      /\ pc' = "after_loop"
                 ELSE /\ pc' = "delay"
                      /\ UNCHANGED lastWiFiError
    /\ UNCHANGED <<boots, cfgSSID, nvsCount, nvsKeys, env, fingerprint,
                   hasCredentials, scenario, attempt, connected, retryStartTime,
                   attemptedSSID, portalTimeout, lastDisconnectReason, ret,
                   restarts>>
    /\ UNCHANGED <<smVars, fpVars, restVars>>

\* The end of a failed iteration: ROUTER_REBOOT waits min(5 * 2^(attempt-1),
\* 60) s, HAS_CREDENTIALS 5 s before its last attempt, FIRST_SETUP nothing.
RetryDelay ==
    /\ pc = "delay"
    /\ IF scenario = "ROUTER_REBOOT"
       THEN /\ millis' = millis + 1000 * RetryDelaySec(attempt)
            /\ calls' = Logged("delay", TRUE, RetryDelaySec(attempt))
       ELSE IF scenario = "HAS_CREDENTIALS" /\ attempt < MAX_WIFI_RETRIES
       THEN /\ millis' = millis + 1000 * INITIAL_RETRY_DELAY_SEC
            /\ calls' = Logged("delay", TRUE, INITIAL_RETRY_DELAY_SEC)
       ELSE UNCHANGED <<millis, calls>>
    /\ pc' = "loop"
    /\ UNCHANGED <<boots, cfgSSID, nvsCount, nvsKeys, env, fingerprint,
                   hasCredentials, scenario, attempt, connected, retryStartTime,
                   attemptedSSID, portalTimeout, lastWiFiError,
                   lastDisconnectReason, locationChecks, ret,
                   restarts>>
    /\ UNCHANGED <<smVars, fpVars, restVars>>

\* The loop ended without a connection: the portal with timeout 0. Its
\* failure is the one return false of setupWiFi.
Fallback ==
    /\ pc = "after_loop"
    /\ ~connected
    /\ portalTimeout' = 0
    /\ \E ok \in BOOLEAN :
          /\ calls' = Logged("startConfigPortal", ok, 0)
          /\ IF PortalFailed(ok)
             THEN /\ ret' = FALSE
                  /\ pc' = "returned"
                  /\ UNCHANGED <<connected, cfgSSID, lastWiFiError>>
             ELSE /\ connected' = TRUE
                  /\ cfgSSID' = IF ok THEN TargetSSID ELSE cfgSSID
                  /\ lastWiFiError' = IF ok THEN "" ELSE lastWiFiError
                  /\ pc' = "after_loop"
                  /\ UNCHANGED ret
    /\ UNCHANGED <<boots, nvsCount, nvsKeys, env, fingerprint, hasCredentials,
                   scenario, attempt, retryStartTime, attemptedSSID, millis,
                   lastDisconnectReason, locationChecks, restarts>>
    /\ UNCHANGED <<smVars, fpVars, restVars>>

\* Connected: fingerprinting.update() scans and, unless the scan gives 0
\* networks, replaces the record in memory and writes "count" and the keys
\* below it; then return true.
Finish ==
    /\ pc = "after_loop"
    /\ connected
    /\ \E scan \in ScanResults(env) :
          /\ fingerprint' = FingerprintUpdate(fingerprint, scan, cfgSSID)
          /\ IF scan.num = 0
             THEN UNCHANGED <<nvsCount, nvsKeys>>
             ELSE /\ nvsCount' = Len(fingerprint')
                  /\ nvsKeys' = [i \in 0..3 |-> IF i < Len(fingerprint')
                                                THEN fingerprint'[i + 1] ELSE nvsKeys[i]]
    /\ calls' = Logged("update", TRUE, 0)
    /\ ret' = TRUE
    /\ pc' = "returned"
    /\ UNCHANGED <<boots, cfgSSID, env, hasCredentials, scenario, attempt,
                   connected, retryStartTime, attemptedSSID, millis,
                   portalTimeout, lastWiFiError, lastDisconnectReason,
                   locationChecks, restarts>>
    /\ UNCHANGED <<smVars, fpVars, restVars>>

\* What a boot finds in RAM; the durable state and the place stay.
RamReset ==
    /\ pc' = "boot"
    /\ boots' = boots + 1
    /\ fingerprint' = << >>
    /\ hasCredentials' = FALSE
    /\ scenario' = "FIRST_SETUP"
    /\ attempt' = 0
    /\ connected' = FALSE
    /\ retryStartTime' = 0
    /\ attemptedSSID' = ""
    /\ millis' = 0
    /\ portalTimeout' = 0
    /\ lastWiFiError' = ""
    /\ lastDisconnectReason' = 0
    /\ calls' = << >>
    /\ locationChecks' = 0
    /\ ret' = FALSE
    /\ UNCHANGED <<cfgSSID, nvsCount, nvsKeys, env>>

\* ESP.restart() does not return: the device boots again.
RestartBoot ==
    /\ pc = "restarted"
    /\ boots < MaxBoots
    /\ RamReset
    /\ UNCHANGED restarts
    /\ UNCHANGED <<smVars, fpVars, restVars>>

\* setupWiFi has returned; later the device is power-cycled.
PowerCycle ==
    /\ pc = "returned"
    /\ boots < MaxBoots
    /\ RamReset
    /\ restarts' = 0
    /\ UNCHANGED <<smVars, fpVars, restVars>>

\* The records update() can have left in NVS, one per place, and none.
StoredRecords ==
    { << >> } \cup
    { CollectNeighbors(ByRSSI(place), TargetSSID, << >>) : place \in RecordPlaces }

\* A power-on: credentials stored or not (the reset button wipes them and
\* leaves the fingerprint), any record update() can have stored, any place.
InitWiFi ==
    /\ ConstructedSM
    /\ AuxIdle
    /\ FpIdle
    /\ RestIdle
    /\ now = 0
    /\ pc = "boot"
    /\ boots = 0
    /\ cfgSSID \in {"", TargetSSID}
    /\ \E rec \in StoredRecords :
          /\ nvsCount = Len(rec)
          /\ nvsKeys = [i \in 0..3 |-> IF i < Len(rec) THEN rec[i + 1] ELSE ""]
    /\ env \in Neighbourhoods
    /\ fingerprint = << >>
    /\ hasCredentials = FALSE
    /\ scenario = "FIRST_SETUP"
    /\ attempt = 0
    /\ connected = FALSE
    /\ retryStartTime = 0
    /\ attemptedSSID = ""
    /\ millis = 0
    /\ portalTimeout = 0
    /\ lastWiFiError = ""
    /\ lastDisconnectReason = 0
    /\ calls = << >>
    /\ locationChecks = 0
    /\ ret = FALSE
    /\ restarts = 0

NextWiFi ==
    \/ SetupBegin
    \/ LoopHead
    \/ ConnectSaved
    \/ ConnectPortal
    \/ Diagnose
    \/ CheckLocation
    \/ RetryDelay
    \/ Fallback
    \/ Finish
    \/ RestartBoot
    \/ PowerCycle

SpecWiFi == InitWiFi /\ [][NextWiFi]_vars

(***************************************************************************)
(* Claims about setupWiFi (checked under SpecWiFi)                         *)
(***************************************************************************)
LastCall == calls[Len(calls)]

\* C5: when no credentials are persisted at boot the scenario is
\* FIRST_SETUP, whatever the persisted fingerprint record holds (nothing or
\* 1 to 4 neighbours); the scenario is decided by the credentials alone.
C5_NoCredentialsIsFirstSetup ==
    /\ (pc = "loop" /\ attempt = 0) => (hasCredentials <=> cfgSSID # "")
    /\ (pc # "boot" /\ ~hasCredentials) => scenario = "FIRST_SETUP"
    /\ (pc # "boot" /\ hasCredentials) => scenario = "ROUTER_REBOOT"

\* C5 witness: setupWiFi has loaded a record of 4 neighbours, found no
\* credentials and chosen FIRST_SETUP.
C5_Witness ==
    /\ pc = "loop"
    /\ attempt = 0
    /\ cfgSSID = ""
    /\ Len(fingerprint) = 4
    /\ scenario = "FIRST_SETUP"

C7_FalseIffIndefinitePortalFails ==
    (pc = "returned" /\ ~ret)
        <=> (calls # << >> /\ LastCall.call = "startConfigPortal" /\ ~LastCall.ok)

\* C7 witness: the ROUTER_REBOOT budget ran out, the portal failed, false
\* was returned.
C7_Witness ==
    /\ pc = "returned"
    /\ ~ret
    /\ scenario = "ROUTER_REBOOT"
    /\ millis - retryStartTime >= ROUTER_REBOOT_TIMEOUT_MS

\* C8: isSameLocation is called only after a failed connection attempt for
\* which a non-empty SSID was captured: never before the first attempt,
\* never after a successful attempt, never with an empty attempted SSID.
C8_LocationCheckOnlyAfterFailureWithSSID ==
    /\ pc = "locate" => (~connected /\ attemptedSSID # "" /\ attempt >= 1)
    /\ (calls # << >> /\ LastCall.call = "isSameLocation") =>
          /\ ~connected
          /\ attemptedSSID # ""
          /\ Len(calls) >= 3
          /\ calls[Len(calls) - 1].call = "diagnoseSSID"
          /\ calls[Len(calls) - 2].call \in {"WiFi.begin", "autoConnect"}
          /\ ~calls[Len(calls) - 2].ok
    /\ locationChecks <= attempt
    /\ (calls # << >> /\ LastCall.call \in {"WiFi.begin", "autoConnect"} /\ LastCall.ok) =>
          (connected /\ pc = "after_loop" /\ locationChecks < attempt)

\* C8 witness: the first failure captured no SSID (no check), the second
\* did, and the check has just been made.
C8_Witness ==
    /\ calls # << >>
    /\ LastCall.call = "isSameLocation"
    /\ attempt = 2
    /\ locationChecks = 1

\* The case of C9: credentials, a record of 2 neighbours, both in range with
\* 3 unknown networks, first attempt failed, second succeeded.
C9_Case ==
    /\ pc = "after_loop"
    /\ scenario = "ROUTER_REBOOT"
    /\ hasCredentials
    /\ fingerprint = <<"A", "B">>
    /\ env = {"A", "B", "X", "Y", "Z"}
    /\ attempt = 2
    /\ connected
    /\ calls # << >>
    /\ LastCall = [call |-> "WiFi.begin", ok |-> TRUE, num |-> 0]

\* C9 as stated: in that case no relocation check is ever triggered.
C9_NoLocationCheck == C9_Case => locationChecks = 0

\* C9 as amended: in that case the relocation check is triggered once,
\* after the failed first attempt, whenever that attempt captured an SSID
\* (and not otherwise); a check whose scan shows the stored neighbours
\* returns true, so the loop goes on to the second attempt, and no check
\* follows the successful attempt.
C9_CheckAfterFirstFailureReturnsTrue ==
    /\ C9_Case =>
          /\ locationChecks = (IF attemptedSSID # "" THEN 1 ELSE 0)
          /\ calls[Len(calls) - 1].call = "delay"
          /\ attemptedSSID # "" =>
                (calls[Len(calls) - 2].call = "isSameLocation" /\ calls[Len(calls) - 2].ok)
    /\ (calls # << >> /\ LastCall.call = "isSameLocation"
          /\ fingerprint = <<"A", "B">> /\ env = {"A", "B", "X", "Y", "Z"}
          /\ LastCall.num >= 5) => LastCall.ok

\* C9 witness: the case, with the check made on a scan of 5 networks.
C9_Witness ==
    /\ C9_Case
    /\ locationChecks = 1
    /\ calls[Len(calls) - 2] = [call |-> "isSameLocation", ok |-> TRUE, num |-> 5]

\* C10: whenever isSameLocation returns false the retry loop ends at once:
\* the loop is left unconnected, and the next network action is the portal
\* with timeout 0 - no further attempt, no retry delay - whatever budget
\* remains.
C10_NewLocationAbortsAtOnce ==
    \A i \in 1..Len(calls) :
        (calls[i].call = "isSameLocation" /\ ~calls[i].ok) =>
            IF i = Len(calls)
            THEN pc = "after_loop" /\ ~connected
            ELSE calls[i + 1].call = "startConfigPortal" /\ portalTimeout = 0

\* C10 witness: the third failed attempt, well within the 5 minutes, found
\* none of the stored neighbours among 5 visible networks, and the portal
\* was opened next.
C10_Witness ==
    /\ Len(calls) >= 2
    /\ calls[Len(calls) - 1] = [call |-> "isSameLocation", ok |-> FALSE, num |-> 5]
    /\ LastCall.call = "startConfigPortal"
    /\ scenario = "ROUTER_REBOOT"
    /\ attempt = 3
    /\ millis - retryStartTime < ROUTER_REBOOT_TIMEOUT_MS

\* The positions inside one iteration of the retry loop, after its head.
InIteration == {"connect", "failed", "locate", "delay"}

\* The bounds C11 states: FIRST_SETUP makes its attempt in iteration 1 only,
\* ROUTER_REBOOT starts no attempt once 300000 ms have elapsed, and (an
\* iteration of ROUTER_REBOOT taking 25 s or more) no loop goes beyond its
\* 6th iteration, nor runs longer than the budget plus one iteration.
C11_Bounds ==
    /\ (scenario = "FIRST_SETUP" /\ pc \in InIteration) => attempt = 1
    /\ (scenario = "FIRST_SETUP") => attempt <= 2
    /\ (scenario = "ROUTER_REBOOT") =>
          millis - retryStartTime < ROUTER_REBOOT_TIMEOUT_MS + LOCATION_CHECK_DISPLAY_MS
                                      + 1000 * (MAX_CONNECTION_TIMEOUT_SEC + MAX_RETRY_DELAY_SEC)
    /\ (scenario = "ROUTER_REBOOT" /\ pc = "connect") =>
          millis - retryStartTime < ROUTER_REBOOT_TIMEOUT_MS
    /\ attempt <= 6

C12_NoPortalInsideRouterRebootLoop ==
    (scenario = "ROUTER_REBOOT" /\ pc # "boot") =>
        /\ \A i \in 1..Len(calls) : calls[i].call # "autoConnect"
        /\ (pc \in InIteration \cup {"loop"}) =>
              \A i \in 1..Len(calls) : calls[i].call # "startConfigPortal"
        /\ (pc \in {"failed", "locate", "delay"}) =>
              \E i \in 1..Len(calls) : calls[i].call = "WiFi.begin" /\ ~calls[i].ok
        /\ \A i \in 1..Len(calls) :
              calls[i].call = "startConfigPortal" =>
                  /\ pc \in {"after_loop", "returned"}
                  /\ i > 1 => (calls[i - 1].call \in {"delay", "isSameLocation"})

\* C12 witness: five silent attempts failed, the budget ran out and the
\* portal was opened after the loop.
C12_Witness ==
    /\ scenario = "ROUTER_REBOOT"
    /\ attempt = 6
    /\ Len(calls) >= 2
    /\ LastCall.call = "startConfigPortal"
    /\ calls[Len(calls) - 1].call = "delay"

\* The values C13 states, for the attempt indices the budget allows.
C13_Timeouts == <<20, 40, 60, 60, 60, 60>>
C13_Delays == <<5, 10, 20, 40, 60, 60>>

C14_KnownNetworkFailingPolicy ==
    (hasCredentials /\ pc = "failed" /\ attempt >= 2) =>
        /\ scenario = "HAS_CREDENTIALS"
        /\ attempt <= MAX_WIFI_RETRIES
        /\ LastCall.call = "autoConnect"
        /\ portalTimeout = IF attempt < MAX_WIFI_RETRIES THEN PORTAL_TIMEOUT_GENEROUS_SEC ELSE 0

(***************************************************************************)
(* Part 3: the WiFiFingerprinting object on its own: any sequence of       *)
(* load, update, isSameLocation and clear, with reboots, moves of the      *)
(* device and changes of the network it is connected to.                   *)
(***************************************************************************)
\* isSameLocation(), 75% variant: false on an empty record, true when the
\* scan gives 0 networks, else matchCount (uint8_t), the number of scanned
\* networks whose SSID is stored, against requiredMatches = count * 3 / 4,
\* at least 1.
IsSameLocationQuorum(fp, scan) ==
    IF Len(fp) = 0 THEN FALSE
    ELSE IF scan.num = 0 THEN TRUE
    ELSE LET matchCount ==
                 Cardinality({ i \in 1..Len(scan.aps) :
                                  \E j \in 1..Len(fp) : ApSSID(scan.aps[i]) = fp[j] }) % 256
             threeQuarters == IF Len(fp) = 1 THEN 1 ELSE (Len(fp) * 3) \div 4
             requiredMatches == IF threeQuarters = 0 THEN 1 ELSE threeQuarters
         IN  matchCount >= requiredMatches

\* The isSameLocation of the build.
IsSameLocationOf(v, fp, scan) ==
    IF v = "any" THEN IsSameLocation(fp, scan) ELSE IsSameLocationQuorum(fp, scan)

\* The networks the device may be connected to when update() runs.
FpTargets == {TargetSSID, "A"}

\* The sets of access points in range, the target's among them.
FpPlaces ==
    { {"A"}, {"A", "B"}, {"A", "A2", "A3"}, {"A", "A2", "A3", "B", "X"},
      {"T_strong", "T_weak", "A", "B"}, {"T_strong", "Hidden"},
      {"T_weak", "A", "B", "X", "Y", "Z"}, {"X", "Y", "Z", "V", "W"} }

\* What WiFi.scanNetworks() may give there: one entry per access point,
\* strongest first, or 0, or the failure code.
FpScanResults(place) ==
    { [num |-> Cardinality(place), aps |-> ByRSSI(place)],
      [num |-> 0, aps |-> << >>], [num |-> -2, aps |-> << >>] }

\* The setupWiFi part stays as it is throughout.
FpFrame ==
    UNCHANGED <<pc, boots, hasCredentials, scenario, attempt, connected,
                retryStartTime, attemptedSSID, millis, portalTimeout,
                lastWiFiError, lastDisconnectReason, calls, locationChecks,
                ret, restarts, variant, smVars, restVars>>

\* load()
FpLoad ==
    /\ fingerprint' = FingerprintLoad(nvsCount, nvsKeys)
    /\ fpOp' = "load"
    /\ fpScan' = NoScan
    /\ fpResult' = TRUE
    /\ UNCHANGED <<cfgSSID, nvsCount, nvsKeys, env>>
    /\ FpFrame

\* update(): returns at once when the scan gives 0 networks; otherwise the
\* collected neighbours replace the record, and "count" and the keys below
\* it are written.
FpUpdate ==
    /\ \E scan \in FpScanResults(env) :
          /\ fpScan' = scan
          /\ fingerprint' = FingerprintUpdate(fingerprint, scan, cfgSSID)
          /\ IF scan.num = 0
             THEN UNCHANGED <<nvsCount, nvsKeys>>
             ELSE /\ nvsCount' = Len(fingerprint')
                  /\ nvsKeys' = [i \in 0..3 |-> IF i < Len(fingerprint')
                                                THEN fingerprint'[i + 1] ELSE nvsKeys[i]]
    /\ fpOp' = "update"
    /\ fpResult' = TRUE
    /\ UNCHANGED <<cfgSSID, env>>
    /\ FpFrame

\* isSameLocation(): no scan on an empty record.
FpIsSameLocation ==
    /\ \E scan \in FpScanResults(env) :
          /\ fpScan' = IF Len(fingerprint) = 0 THEN NoScan ELSE scan
          /\ fpResult' = IsSameLocationOf(variant, fingerprint, scan)
    /\ fpOp' = "isSameLocation"
    /\ UNCHANGED <<cfgSSID, nvsCount, nvsKeys, env, fingerprint>>
    /\ FpFrame

\* clear(): prefs.clear() and count = 0.
FpClear ==
    /\ fingerprint' = << >>
    /\ nvsCount' = 0
    /\ nvsKeys' = [i \in 0..3 |-> ""]
    /\ fpOp' = "clear"
    /\ fpScan' = NoScan
    /\ fpResult' = TRUE
    /\ UNCHANGED <<cfgSSID, env>>
    /\ FpFrame

\* A reboot: the constructor sets count = 0; NVS stays.
FpReboot ==
    /\ fpOp # "boot"
    /\ fingerprint' = << >>
    /\ fpOp' = "boot"
    /\ fpScan' = NoScan
    /\ fpResult' = TRUE
    /\ UNCHANGED <<cfgSSID, nvsCount, nvsKeys, env>>
    /\ FpFrame

\* The device is carried elsewhere, or the networks around it change.
FpMove ==
    /\ \E place \in FpPlaces : place # env /\ env' = place
    /\ fpOp' = "move"
    /\ fpScan' = NoScan
    /\ fpResult' = TRUE
    /\ UNCHANGED <<cfgSSID, nvsCount, nvsKeys, fingerprint>>
    /\ FpFrame

\* The device is configured for another network and connects to it.
FpConnect ==
    /\ \E t \in FpTargets : t # cfgSSID /\ cfgSSID' = t
    /\ fpOp' = "connect"
    /\ fpScan' = NoScan
    /\ fpResult' = TRUE
    /\ UNCHANGED <<env, nvsCount, nvsKeys, fingerprint>>
    /\ FpFrame

\* A freshly constructed object on a device with a blank wifi_fp namespace,
\* connected to the target network, in any place, with either variant.
InitFP ==
    /\ ConstructedSM
    /\ AuxIdle
    /\ RestIdle
    /\ now = 0
    /\ pc = "boot"
    /\ boots = 0
    /\ cfgSSID = TargetSSID
    /\ nvsCount = 0
    /\ nvsKeys = [i \in 0..3 |-> ""]
    /\ env \in FpPlaces
    /\ fingerprint = << >>
    /\ hasCredentials = FALSE
    /\ scenario = "FIRST_SETUP"
    /\ attempt = 0
    /\ connected = FALSE
    /\ retryStartTime = 0
    /\ attemptedSSID = ""
    /\ millis = 0
    /\ portalTimeout = 0
    /\ lastWiFiError = ""
    /\ lastDisconnectReason = 0
    /\ calls = << >>
    /\ locationChecks = 0
    /\ ret = FALSE
    /\ restarts = 0
    /\ variant \in {"any", "quorum"}
    /\ fpOp = "boot"
    /\ fpScan = NoScan
    /\ fpResult = TRUE

NextFP ==
    \/ FpLoad
    \/ FpUpdate
    \/ FpIsSameLocation
    \/ FpClear
    \/ FpReboot
    \/ FpMove
    \/ FpConnect

SpecFP == InitFP /\ [][NextFP]_vars

(***************************************************************************)
(* Claims about WiFiFingerprinting (checked under SpecFP)                  *)
(***************************************************************************)
\* The SSIDs a scan shows and the SSIDs a record holds.
ScanSSIDs(scan) == { ApSSID(scan.aps[i]) : i \in 1..Len(scan.aps) }
RecordSSIDs(fp) == { fp[j] : j \in 1..Len(fp) }

\* C15: isSameLocation on an empty record (count = 0) returns false in both
\* variants, wherever the device is, and makes no scan.
C15_EmptyRecordIsNewLocation ==
    (fpOp = "isSameLocation" /\ Len(fingerprint) = 0) =>
        (~fpResult /\ fpScan = NoScan)

\* C15 witness: the check ran on an empty record in a place where 6
\* networks are in range and nothing is stored.
C15_Witness ==
    /\ fpOp = "isSameLocation"
    /\ Len(fingerprint) = 0
    /\ nvsCount = 0
    /\ Cardinality(env) = 6
    /\ ~fpResult

\* C16 as stated: with a non-empty record, a scan that shows no network -
\* the count 0 or the failure code of a scan that failed - makes
\* isSameLocation return true, so a failed scan never forces
\* reconfiguration.
C16_FailOpenOnEmptyScan ==
    (fpOp = "isSameLocation" /\ Len(fingerprint) > 0 /\ fpScan.num <= 0) => fpResult

\* C17 as stated: with a non-empty record, a scan showing exactly the
\* stored set of SSIDs makes isSameLocation return true, in both variants.
C17_ExactReproductionIsSame ==
    (fpOp = "isSameLocation" /\ Len(fingerprint) > 0 /\ fpScan.num > 0
       /\ ScanSSIDs(fpScan) = RecordSSIDs(fingerprint)) => fpResult

\* C18: with a non-empty record and a non-empty scan the any-match
\* isSameLocation returns true exactly when the visible SSIDs and the
\* stored SSIDs have an element in common.
C18_AnyMatchIffCommonSSID ==
    (variant = "any" /\ fpOp = "isSameLocation" /\ Len(fingerprint) > 0 /\ fpScan.num > 0) =>
        (fpResult <=> ScanSSIDs(fpScan) \cap RecordSSIDs(fingerprint) # {})

\* C18 witness: 5 networks visible, 4 stored, none in common: false.
C18_Witness ==
    /\ variant = "any"
    /\ fpOp = "isSameLocation"
    /\ Len(fingerprint) = 4
    /\ fpScan.num = 5
    /\ ScanSSIDs(fpScan) \cap RecordSSIDs(fingerprint) = {}
    /\ ~fpResult

\* C19 as stated: after update() no stored entry is the SSID of the
\* connected network, whatever the scan gave.
C19_TargetNeverStored ==
    fpOp = "update" =>
        /\ \A j \in 1..Len(fingerprint) : fingerprint[j] # cfgSSID
        /\ \A i \in 0..(nvsCount - 1) : nvsKeys[i] # cfgSSID

\* C19 as amended: after an update() whose scan did not give 0 networks, no
\* entry of the record, in memory or persisted, is the SSID of the connected
\* network or empty, also when that network is listed several times or
\* first; an update() whose scan gave 0 networks leaves the record as it
\* was.
C19_TargetNotStoredByUpdate ==
    /\ []((fpOp = "update" /\ fpScan.num # 0) =>
             /\ \A j \in 1..Len(fingerprint) : fingerprint[j] \notin {cfgSSID, ""}
             /\ nvsCount = Len(fingerprint)
             /\ \A i \in 0..(nvsCount - 1) : nvsKeys[i] = fingerprint[i + 1]
             /\ RecordSSIDs(fingerprint) \subseteq ScanSSIDs(fpScan))
    /\ [][(FpUpdate /\ fpScan'.num = 0) =>
              UNCHANGED <<fingerprint, nvsCount, nvsKeys>>]_vars

\* C19 witness: the target network was listed twice, strongest first, and
\* update() stored the two neighbours.
C19_Witness ==
    /\ fpOp = "update"
    /\ fpScan.num = 4
    /\ ApSSID(fpScan.aps[1]) = cfgSSID
    /\ Cardinality({ i \in 1..Len(fpScan.aps) : ApSSID(fpScan.aps[i]) = cfgSSID }) = 2
    /\ fingerprint = <<"A", "B">>

\* C20: the fingerprint count is at most MAX_NEIGHBORS (4) in memory and in
\* the persisted record, in every state.
C20_CountAtMostFour ==
    /\ Len(fingerprint) <= MAX_NEIGHBORS
    /\ nvsCount <= MAX_NEIGHBORS
    /\ nvsCount >= 0

\* C20 witness: update() ran on a scan with 5 candidates and stored 4.
C20_Witness ==
    /\ fpOp = "update"
    /\ Cardinality({ i \in 1..Len(fpScan.aps) : ApSSID(fpScan.aps[i]) \notin {cfgSSID, ""} }) = 5
    /\ Len(fingerprint) = 4
    /\ nvsCount = 4

\* The entries of a scan that update() may store: in scan order, those with
\* an SSID that is not the connected network's.
Candidates(scan, target) ==
    LET Named(ap) == ApSSID(ap) \notin {"", target}
    IN  SelectSeq(scan.aps, Named)

\* The first up to MAX_NEIGHBORS candidates were stored, in scan order, and
\* none of those left out is stronger than one stored.
StoredStrongest(fp, scan, target) ==
    LET cand == Candidates(scan, target)
        k == Min(MAX_NEIGHBORS, Len(cand))
    IN  /\ fp = [i \in 1..k |-> ApSSID(cand[i])]
        /\ \A i \in 1..k : \A j \in (k + 1)..Len(cand) : ApRSSI(cand[i]) >= ApRSSI(cand[j])

\* C21 as stated: after update() the record holds the up to 4 strongest
\* non-target networks of the scan, and its entries are pairwise distinct.
C21_StrongestDistinct ==
    (fpOp = "update" /\ fpScan.num # 0) =>
        /\ StoredStrongest(fingerprint, fpScan, cfgSSID)
        /\ \A i \in 1..Len(fingerprint) : \A j \in 1..Len(fingerprint) :
              i # j => fingerprint[i] # fingerprint[j]

\* C21 as amended: after an update() whose scan did not give 0 networks the
\* record holds, in scan order, the SSIDs of the first up to 4 scan entries
\* that have an SSID other than the connected network's; no such entry left
\* out is stronger than one stored; entries repeat when several access
\* points with the same SSID are among them.
C21_StrongestInScanOrder ==
    (fpOp = "update" /\ fpScan.num # 0) =>
        /\ StoredStrongest(fingerprint, fpScan, cfgSSID)
        /\ nvsCount = Len(fingerprint)
        /\ \A i \in 1..Len(fingerprint) : nvsKeys[i - 1] = fingerprint[i]

\* C21 witness: 5 candidates, the 4 strongest stored, three of them access
\* points of one network.
C21_Witness ==
    /\ fpOp = "update"
    /\ Len(Candidates(fpScan, cfgSSID)) = 5
    /\ fingerprint = <<"A", "A", "A", "B">>

\* C22: in setupWiFi update() is called only once the connection is
\* confirmed, directly after the successful attempt or portal, as the last
\* action before returning true, hence once; never before a connection and
\* never on the path that returns false; and nothing else in setupWiFi
\* writes the persisted record.
C22_UpdateOnlyAfterSuccess ==
    /\ [](\A i \in 1..Len(calls) :
             calls[i].call = "update" =>
                 /\ i = Len(calls)
                 /\ pc = "returned" /\ ret /\ connected
                 /\ i > 1
                 /\ calls[i - 1].call \in {"WiFi.begin", "autoConnect", "startConfigPortal"}
                 /\ calls[i - 1].ok)
    /\ []((pc = "returned" /\ ret) => (calls # << >> /\ LastCall.call = "update"))
    /\ []((pc = "returned" /\ ~ret) => \A i \in 1..Len(calls) : calls[i].call # "update")
    /\ [][(nvsCount' # nvsCount \/ nvsKeys' # nvsKeys) =>
              (pc = "after_loop" /\ connected /\ pc' = "returned" /\ ret')]_vars

\* C22 witness: the portal after the loop connected, update() replaced the
\* stored record and true was returned.
C22_Witness ==
    /\ pc = "returned"
    /\ ret
    /\ Len(calls) >= 2
    /\ calls[Len(calls) - 1] = [call |-> "startConfigPortal", ok |-> TRUE, num |-> 0]
    /\ LastCall.call = "update"
    /\ nvsCount = 4
    /\ fingerprint = <<"X", "Y", "Z", "V">>

\* C23 as stated: a non-empty persisted record becomes empty only by
\* clear().
C23_EmptiedOnlyByClear ==
    [][(nvsCount > 0 /\ nvsCount' = 0) => fpOp' = "clear"]_vars

(***************************************************************************)
(* Part 4: link health in loop()                                           *)
(*         (lamp_refractored/lamp_template/WiFiHandler.cpp:132-177,        *)
(*          428-489)                                                       *)
(***************************************************************************)
\* How long the loop is followed after setup, in ms (far below the wrap of
\* millis(), so its differences are taken in the integers).
MaxUptime == 120000

\* The literals of handleWiFiHealth and handleWiFiResetButton, in ms, and
\* the period of one LED frame (LedController.cpp:479, 200 FPS).
RECONNECT_INTERVAL_MS == 10000
STABILIZE_DELAY_MS == 10000
RESTART_NOTICE_MS == 1000
BUTTON_HOLD_MS == 2000
BUTTON_RESET_DELAY_MS == 500
LED_FRAME_MS == 5

\* What the loop's calls leave alone.
HealthFrame ==
    UNCHANGED <<smVars, fpVars, pc, nvsCount, nvsKeys, env, fingerprint,
                hasCredentials, scenario, attempt, connected, retryStartTime,
                attemptedSSID, portalTimeout, calls, locationChecks, ret,
                restarts, laneVars, freshVars, auxVars>>

\* The time between two calls made by loop().
LoopGaps == {10001}

\* handleWiFiHealth's connected branch: "Reset reconnect counter when
\* connected".
CounterWhenConnected_Kept(n) == n

CounterWhenConnected(n) == IF n > 0 THEN 0 ELSE n

\* WiFiEvent, ARDUINO_EVENT_WIFI_STA_CONNECTED
WiFiEventConnected ==
    /\ ~halted
    /\ ~linkUp
    /\ linkUp' = TRUE
    /\ lastWiFiError' = ""
    /\ hOp' = "STA_CONNECTED"
    /\ blockedMs' = 0
    /\ UNCHANGED <<boots, cfgSSID, millis, lastDisconnectReason, reconnectAttempts,
                   lastReconnectAttempt, wifiJustReconnected, buttonPressTime,
                   halted>>
    /\ HealthFrame

\* WiFiEvent, ARDUINO_EVENT_WIFI_STA_DISCONNECTED: the link drops, or an
\* attempt to get it back fails.
WiFiEventDisconnected ==
    /\ ~halted
    /\ \E reason \in DisconnectReasons :
          /\ lastDisconnectReason' = reason
          /\ lastWiFiError' = GetDisconnectReasonText(reason)
    /\ linkUp' = FALSE
    /\ hOp' = "STA_DISCONNECTED"
    /\ blockedMs' = 0
    /\ UNCHANGED <<boots, cfgSSID, millis, reconnectAttempts, lastReconnectAttempt,
                   wifiJustReconnected, buttonPressTime, halted>>
    /\ HealthFrame

\* handleWiFiHealth()
HandleWiFiHealth ==
    /\ ~halted
    /\ hOp' = "handleWiFiHealth"
    /\ IF ~linkUp
       THEN IF millis - lastReconnectAttempt > RECONNECT_INTERVAL_MS
            THEN /\ lastReconnectAttempt' = millis
                 /\ reconnectAttempts' = reconnectAttempts + 1
                 /\ IF reconnectAttempts + 1 >= MAX_WIFI_RETRIES
                    THEN /\ blockedMs' = RESTART_NOTICE_MS
                         /\ millis' = millis + RESTART_NOTICE_MS
                         /\ halted' = TRUE
                    ELSE /\ blockedMs' = 0
                         /\ UNCHANGED <<millis, halted>>
                 /\ UNCHANGED wifiJustReconnected
            ELSE /\ blockedMs' = 0
                 /\ UNCHANGED <<millis, halted, reconnectAttempts,
                                lastReconnectAttempt, wifiJustReconnected>>
       ELSE /\ reconnectAttempts' = CounterWhenConnected(reconnectAttempts)
            /\ IF reconnectAttempts > 0
               THEN /\ blockedMs' = STABILIZE_DELAY_MS
                    /\ millis' = millis + STABILIZE_DELAY_MS
                    /\ wifiJustReconnected' = TRUE
               ELSE /\ blockedMs' = 0
                    /\ UNCHANGED <<millis, wifiJustReconnected>>
            /\ UNCHANGED <<halted, lastReconnectAttempt>>
    /\ UNCHANGED <<boots, cfgSSID, linkUp, lastWiFiError, lastDisconnectReason,
                   buttonPressTime>>
    /\ HealthFrame

\* handleWiFiResetButton(wifiManager), with the level of BUTTON_PIN
HandleWiFiResetButton ==
    /\ ~halted
    /\ hOp' = "handleWiFiResetButton"
    /\ \E isPressed \in BOOLEAN :
          IF isPressed
          THEN IF buttonPressTime = 0
               THEN /\ buttonPressTime' = millis
                    /\ blockedMs' = 0
                    /\ UNCHANGED <<cfgSSID, millis, halted>>
               ELSE IF millis - buttonPressTime >= BUTTON_HOLD_MS
                    THEN /\ cfgSSID' = ""
                         /\ blockedMs' = BUTTON_RESET_DELAY_MS
                         /\ millis' = millis + BUTTON_RESET_DELAY_MS
                         /\ halted' = TRUE
                         /\ UNCHANGED buttonPressTime
                    ELSE /\ blockedMs' = 0
                         /\ UNCHANGED <<cfgSSID, millis, halted, buttonPressTime>>
          ELSE /\ buttonPressTime' = 0
               /\ blockedMs' = 0
               /\ UNCHANGED <<cfgSSID, millis, halted>>
    /\ UNCHANGED <<boots, linkUp, lastWiFiError, lastDisconnectReason,
                   reconnectAttempts, lastReconnectAttempt, wifiJustReconnected>>
    /\ HealthFrame

\* The rest of loop() runs until its next call.
LoopPass ==
    /\ ~halted
    /\ \E gap \in LoopGaps :
          /\ millis + gap <= MaxUptime
          /\ millis' = millis + gap
    /\ hOp' = "loop"
    /\ blockedMs' = 0
    /\ UNCHANGED <<boots, cfgSSID, linkUp, lastWiFiError, lastDisconnectReason,
                   reconnectAttempts, lastReconnectAttempt, wifiJustReconnected,
                   buttonPressTime, halted>>
    /\ HealthFrame

\* The state in which loop() starts: setupWiFi has returned true.
LoopEntered ==
    /\ cfgSSID = TargetSSID
    /\ millis = RESTART_DELAY_MS
    /\ lastWiFiError = ""
    /\ lastDisconnectReason = 0
    /\ linkUp = TRUE
    /\ reconnectAttempts = 0
    /\ lastReconnectAttempt = 0
    /\ wifiJustReconnected = FALSE
    /\ buttonPressTime = 0
    /\ halted = FALSE
    /\ blockedMs = 0

\* After ESP.restart(): the globals are initialised again, setup() runs, the
\* portal takes credentials if they were wiped, and loop() starts.
HealthReboot ==
    /\ halted
    /\ boots < MaxBoots
    /\ boots' = boots + 1
    /\ cfgSSID' = TargetSSID
    /\ millis' = RESTART_DELAY_MS
    /\ lastWiFiError' = ""
    /\ lastDisconnectReason' = 0
    /\ linkUp' = TRUE
    /\ reconnectAttempts' = 0
    /\ lastReconnectAttempt' = 0
    /\ wifiJustReconnected' = FALSE
    /\ buttonPressTime' = 0
    /\ halted' = FALSE
    /\ blockedMs' = 0
    /\ hOp' = "boot"
    /\ HealthFrame

InitHealth ==
    /\ ConstructedSM
    /\ AuxIdle
    /\ FpIdle
    /\ now = 0
    /\ pc = "returned"
    /\ boots = 0
    /\ nvsCount = 0
    /\ nvsKeys = [i \in 0..3 |-> ""]
    /\ env = {}
    /\ fingerprint = << >>
    /\ hasCredentials = TRUE
    /\ scenario = "ROUTER_REBOOT"
    /\ attempt = 1
    /\ connected = TRUE
    /\ retryStartTime = 0
    /\ attemptedSSID = TargetSSID
    /\ portalTimeout = 0
    /\ calls = << >>
    /\ locationChecks = 0
    /\ ret = TRUE
    /\ restarts = 0
    /\ LoopEntered
    /\ hOp = "boot"
    /\ LaneIdle
    /\ FreshIdle

NextHealth ==
    \/ WiFiEventConnected
    \/ WiFiEventDisconnected
    \/ HandleWiFiHealth
    \/ HandleWiFiResetButton
    \/ LoopPass
    \/ HealthReboot

SpecHealth == InitHealth /\ [][NextHealth]_vars

(***************************************************************************)
(* Claims about link health                                                *)
(***************************************************************************)
\* C24 as stated: right after a successful connection event LinkHealth is
\* fully reset: reconnectAttempts is 0, lastDisconnectReason is 0 and
\* lastWiFiError is empty.
C24_FullResetOnConnect ==
    hOp = "STA_CONNECTED" =>
        /\ reconnectAttempts = 0
        /\ lastDisconnectReason = 0
        /\ lastWiFiError = ""

\* C24 as the code has it: a successful connection event empties lastWiFiError
\* and leaves reconnectAttempts and lastDisconnectReason as they were;
\* reconnectAttempts is 0 after the next handleWiFiHealth call that finds the
\* link connected, and lastDisconnectReason keeps the last recorded reason.
C24_ConnectClearsErrorPollClearsCounter ==
    /\ [](hOp = "STA_CONNECTED" => lastWiFiError = "")
    /\ [][hOp' = "STA_CONNECTED" =>
             UNCHANGED <<reconnectAttempts, lastDisconnectReason>>]_vars
    /\ []((hOp = "handleWiFiHealth" /\ linkUp) => reconnectAttempts = 0)
    /\ [][lastDisconnectReason' # lastDisconnectReason =>
             hOp' \in {"STA_DISCONNECTED", "boot"}]_vars

\* The link came back after a recorded failure and a counted attempt, and the
\* next handleWiFiHealth call has reset the counter.
C24_Witness ==
    /\ hOp = "handleWiFiHealth"
    /\ linkUp
    /\ wifiJustReconnected
    /\ blockedMs = STABILIZE_DELAY_MS
    /\ reconnectAttempts = 0
    /\ lastDisconnectReason = 201
    /\ lastWiFiError = ""

\* C27: no call made from the render loop sleeps longer than one display
\* frame.
C27_RenderCallsNeverBlock ==
    hOp \in {"handleWiFiHealth", "handleWiFiResetButton"} =>
        blockedMs <= LED_FRAME_MS

(***************************************************************************)
(* Part 5: the network lane and the render lane                            *)
(*         (lamp_refractored/lamp_template/DualCoreManager.cpp,            *)
(*          SunsetCalculator.cpp, WebServerHandler.cpp:260-370)            *)
(***************************************************************************)
\* How many loop iterations of networkSecretaryTask are followed.
MaxIterations == 5

\* unsigned long is 32 bits wide: a word is <<high, low>> with
\* value = high * WORD_LOW + low, low < WORD_LOW and high < WORD_HIGH.
WORD_LOW == 1048576
WORD_HIGH == 4096

FETCH_INTERVAL == 780000
STARTUP_DELAY_MS == 5000
LOOP_DELAY_MS == 1000
SUNSET_WINDOW_MIN == 15

\* The word of a number below 2^31.
W32(n) == <<n \div WORD_LOW, n % WORD_LOW>>

\* a + n, a - b and a > b on unsigned long
Add32(a, n) ==
    LET low == a[2] + (n % WORD_LOW)
    IN  <<(a[1] + (n \div WORD_LOW) + (low \div WORD_LOW)) % WORD_HIGH,
          low % WORD_LOW>>

Sub32(a, b) ==
    LET low == a[2] - b[2]
        borrow == IF low < 0 THEN 1 ELSE 0
    IN  <<(a[1] - b[1] - borrow) % WORD_HIGH, low + borrow * WORD_LOW>>

Gt32(a, b) == a[1] > b[1] \/ (a[1] = b[1] /\ a[2] > b[2])

\* Whether a + n has passed the end of the 32-bit range.
Wraps32(a, n) == Gt32(a, Add32(a, n))

\* networkSecretaryTask's test "now - lastFetch > FETCH_INTERVAL"
FetchDue_Inclusive(nowWord, last) ==
    ~Gt32(W32(FETCH_INTERVAL), Sub32(nowWord, last))

FetchDue(nowWord, last) == Gt32(Sub32(nowWord, last), W32(FETCH_INTERVAL))

\* networkSecretaryTask's test "if (fetchSurfDataFromServer())" around its
\* stores
StoresFacts_Always(ok) == TRUE

StoresFacts(ok) == ok

\* SunsetCalculator::getDayOfYear
IsLeap(year) == (year % 4 = 0 /\ year % 100 # 0) \/ year % 400 = 0

DaysInMonth(year) ==
    <<31, IF IsLeap(year) THEN 29 ELSE 28, 31, 30, 31, 30, 31, 31, 30, 31, 30, 31>>

RECURSIVE DaysBefore(_, _)
DaysBefore(year, month) ==
    IF month <= 1 THEN 0
    ELSE DaysBefore(year, month - 1) + DaysInMonth(year)[month - 1]

GetDayOfYear(year, month, day) == day + DaysBefore(year, month)

\* parseAndUpdateTime's local date: the GMT date moved by tz_offset hours.
LocalDayOfYear(t, tz) ==
    LET localHour == t.hour + tz
    IN  IF localHour >= 24
        THEN IF t.day + 1 > DaysInMonth(t.year)[t.month]
             THEN IF t.month + 1 > 12
                  THEN GetDayOfYear(t.year + 1, 1, 1)
                  ELSE GetDayOfYear(t.year, t.month + 1, 1)
             ELSE GetDayOfYear(t.year, t.month, t.day + 1)
        ELSE IF localHour < 0
        THEN IF t.day - 1 < 1
             THEN IF t.month - 1 < 1
                  THEN GetDayOfYear(t.year - 1, 12, DaysInMonth(t.year - 1)[12])
                  ELSE GetDayOfYear(t.year, t.month - 1,
                                    DaysInMonth(t.year)[t.month - 1])
             ELSE GetDayOfYear(t.year, t.month, t.day - 1)
        ELSE GetDayOfYear(t.year, t.month, t.day)

\* SunsetCalculator::hasCoordinates
HasCoordinates(c) == c.coordinates # "none"

\* SunsetCalculator::calculateSunset, given what Dusk2Dawn::sunset returns
CalculateSunset(c, minutes) ==
    IF ~HasCoordinates(c) \/ ~c.timeInitialized THEN c
    ELSE IF minutes < 0 THEN [c EXCEPT !.sunsetMinutesSinceMidnight = -1]
    ELSE [c EXCEPT !.sunsetMinutesSinceMidnight = minutes]

\* Mutant: isSunsetTime does not look at its own played flag.
IsSunsetTime_IgnoresPlayed(c) ==
    IF ~c.timeInitialized \/ c.sunsetMinutesSinceMidnight < 0
    THEN FALSE
    ELSE LET h == c.currentTime.hour + c.tz_offset
             localHour == IF h >= 24 THEN h - 24 ELSE IF h < 0 THEN h + 24 ELSE h
             currentLocalMinutes == localHour * 60 + c.currentTime.minute
         IN  /\ currentLocalMinutes >= c.sunsetMinutesSinceMidnight - SUNSET_WINDOW_MIN
             /\ currentLocalMinutes <= c.sunsetMinutesSinceMidnight + SUNSET_WINDOW_MIN

\* SunsetCalculator::isSunsetTime
IsSunsetTime(c) ==
    IF ~c.timeInitialized \/ c.sunsetMinutesSinceMidnight < 0 \/ c.sunsetPlayedToday
    THEN FALSE
    ELSE LET h == c.currentTime.hour + c.tz_offset
             localHour == IF h >= 24 THEN h - 24 ELSE IF h < 0 THEN h + 24 ELSE h
             currentLocalMinutes == localHour * 60 + c.currentTime.minute
         IN  /\ currentLocalMinutes >= c.sunsetMinutesSinceMidnight - SUNSET_WINDOW_MIN
             /\ currentLocalMinutes <= c.sunsetMinutesSinceMidnight + SUNSET_WINDOW_MIN

\* SunsetCalculator::updateCoordinates
UpdateCoordinates(c, place, tz, minutes) ==
    IF place = c.coordinates /\ tz = c.tz_offset THEN c
    ELSE CalculateSunset([c EXCEPT !.coordinates = place, !.tz_offset = tz],
                         minutes)

\* The Date headers the server sends (GMT), the sunset Dusk2Dawn computes
\* for the lamp's place (17:40 local, or none), and the responses to a fetch:
\* no answer, or HTTP 200 with or without a Date header and with a body that
\* does not parse, parses without coordinates, or parses with them.
ServerTimes ==
    { [year |-> 2025, month |-> 12, day |-> 20, hour |-> 14, minute |-> 40],
      [year |-> 2025, month |-> 12, day |-> 20, hour |-> 15, minute |-> 45],
      [year |-> 2025, month |-> 12, day |-> 21, hour |-> 15, minute |-> 59] }

SunsetResults == {1060}

PlaceTz == 2

Responses ==
    {NoResponse} \cup
    [ok : {TRUE}, date : ServerTimes \cup {<< >>},
     json : {"invalid", "no_coordinates", "coordinates"}]

\* The time one loop iteration takes beyond its delay(1000).
IterationSlack == {0, 779000}

\* What the lanes' steps leave alone.
LaneFrame ==
    UNCHANGED <<smVars, wifiVars, fpVars, healthVars, freshVars, auxVars>>

RenderIdle == UNCHANGED <<rOp, rResult, seenTime, seenSurf>>

NetTimeIdle == UNCHANGED <<ms, wraps, netIterations>>

\* networkSecretaryTask up to its loop: the running flag, delay(5000).
NetStart ==
    /\ netPc = "created"
    /\ networkTaskRunning' = TRUE
    /\ ms' = Add32(ms, STARTUP_DELAY_MS)
    /\ wraps' = wraps + (IF Wraps32(ms, STARTUP_DELAY_MS) THEN 1 ELSE 0)
    /\ lastFetch' = <<0, 0>>
    /\ netPc' = "loop"
    /\ lane' = "network"
    /\ UNCHANGED <<netIterations, netNow, netElapsed, response, fetchResult,
                   sunsetMinutesSinceMidnight, sunsetPlayedToday, lastDayOfYear,
                   currentYear, currentMonth, currentDay, currentHour,
                   currentMinute, coordinatesInitialized, lastSuccessfulFetch,
                   lastDataFetch, sunsetCalc, lastSurfData>>
    /\ RenderIdle
    /\ LaneFrame

\* The head of a loop iteration: now = millis() and the test of the interval.
NetLoopHead ==
    /\ netPc = "loop"
    /\ netIterations < MaxIterations
    /\ netIterations' = netIterations + 1
    /\ netNow' = ms
    /\ netElapsed' = Sub32(ms, lastFetch)
    /\ netPc' = IF FetchDue(ms, lastFetch) THEN "http" ELSE "sleep"
    /\ lane' = "network"
    /\ UNCHANGED <<ms, wraps, lastFetch, response, fetchResult, atomicVars,
                   lastDataFetch, sunsetCalc, lastSurfData>>
    /\ RenderIdle
    /\ LaneFrame

\* fetchSurfDataFromServer up to the answer of http.GET().
NetHttp ==
    /\ netPc = "http"
    /\ \E resp \in Responses :
          /\ response' = resp
          /\ IF ~resp.ok
             THEN fetchResult' = FALSE /\ netPc' = "after_fetch"
             ELSE /\ UNCHANGED fetchResult
                  /\ netPc' = IF resp.date = << >> THEN "process" ELSE "parse_date"
    /\ lane' = "network"
    /\ UNCHANGED <<netNow, lastFetch, netElapsed, atomicVars, lastDataFetch,
                   sunsetCalc, lastSurfData>>
    /\ NetTimeIdle
    /\ RenderIdle
    /\ LaneFrame

\* parseAndUpdateTime, its stores to currentTime up to the hour.
NetParseDate ==
    /\ netPc = "parse_date"
    /\ sunsetCalc' = [sunsetCalc EXCEPT !.currentTime.day = response.date.day,
                                        !.currentTime.month = response.date.month,
                                        !.currentTime.year = response.date.year,
                                        !.currentTime.hour = response.date.hour]
    /\ netPc' = "parse_clock"
    /\ lane' = "network"
    /\ UNCHANGED <<netNow, lastFetch, netElapsed, response, fetchResult,
                   atomicVars, lastDataFetch, lastSurfData>>
    /\ NetTimeIdle
    /\ RenderIdle
    /\ LaneFrame

\* parseAndUpdateTime from the minute on, then calculateSunset().
NetParseClock ==
    /\ netPc = "parse_clock"
    /\ \E minutes \in SunsetResults :
          LET timed == [sunsetCalc EXCEPT !.currentTime.minute = response.date.minute,
                                          !.timeInitialized = TRUE]
              localDay == LocalDayOfYear(timed.currentTime, timed.tz_offset)
              dayed == IF localDay # timed.lastDayOfYear
                       THEN [timed EXCEPT !.sunsetPlayedToday = FALSE,
                                          !.lastDayOfYear = localDay]
                       ELSE timed
          IN  sunsetCalc' = CalculateSunset(dayed, minutes)
    /\ netPc' = "process"
    /\ lane' = "network"
    /\ UNCHANGED <<netNow, lastFetch, netElapsed, response, fetchResult,
                   atomicVars, lastDataFetch, lastSurfData>>
    /\ NetTimeIdle
    /\ RenderIdle
    /\ LaneFrame

\* processSurfData (wave height and threshold are held here in cm).
NetProcess ==
    /\ netPc = "process"
    /\ IF response.json = "invalid"
       THEN /\ fetchResult' = FALSE
            /\ UNCHANGED <<sunsetCalc, lastSurfData>>
       ELSE /\ fetchResult' = TRUE
            /\ IF response.json = "coordinates"
               THEN \E minutes \in SunsetResults :
                       sunsetCalc' = UpdateCoordinates(sunsetCalc, "place",
                                                       PlaceTz, minutes)
               ELSE UNCHANGED sunsetCalc
            /\ lastSurfData' = [waveHeight |-> 120, waveThreshold |-> 100,
                                dataReceived |-> TRUE,
                                needsDisplayUpdate |-> TRUE, lastUpdate |-> ms]
    /\ netPc' = "after_fetch"
    /\ lane' = "network"
    /\ UNCHANGED <<netNow, lastFetch, netElapsed, response, atomicVars,
                   lastDataFetch>>
    /\ NetTimeIdle
    /\ RenderIdle
    /\ LaneFrame

\* networkSecretaryTask after the fetch: the stores on success, then
\* lastFetch = now and lastDataFetch = now.
NetAfterFetch ==
    /\ netPc = "after_fetch"
    /\ IF StoresFacts(fetchResult)
       THEN LET dt == sunsetCalc.currentTime
                dayOfYear == GetDayOfYear(dt.year, dt.month, dt.day)
            IN  /\ lastSuccessfulFetch' = netNow
                /\ currentYear' = dt.year
                /\ currentMonth' = dt.month
                /\ currentDay' = dt.day
                /\ currentHour' = dt.hour
                /\ currentMinute' = dt.minute
                /\ IF dayOfYear # lastDayOfYear
                   THEN sunsetPlayedToday' = FALSE /\ lastDayOfYear' = dayOfYear
                   ELSE UNCHANGED <<sunsetPlayedToday, lastDayOfYear>>
                /\ coordinatesInitialized' =
                      (coordinatesInitialized \/ HasCoordinates(sunsetCalc))
       ELSE UNCHANGED <<lastSuccessfulFetch, currentYear, currentMonth,
                        currentDay, currentHour, currentMinute,
                        sunsetPlayedToday, lastDayOfYear, coordinatesInitialized>>
    /\ lastFetch' = netNow
    /\ lastDataFetch' = netNow
    /\ netPc' = "sleep"
    /\ lane' = "network"
    /\ UNCHANGED <<netNow, netElapsed, response, fetchResult,
                   sunsetMinutesSinceMidnight, networkTaskRunning, sunsetCalc,
                   lastSurfData>>
    /\ NetTimeIdle
    /\ RenderIdle
    /\ LaneFrame

\* delay(1000) and the rest of the iteration's time.
NetSleep ==
    /\ netPc = "sleep"
    /\ \E slack \in IterationSlack :
          /\ ms' = Add32(ms, LOOP_DELAY_MS + slack)
          /\ wraps' = wraps + (IF Wraps32(ms, LOOP_DELAY_MS + slack) THEN 1 ELSE 0)
    /\ netPc' = "loop"
    /\ lane' = "network"
    /\ UNCHANGED <<netIterations, netNow, lastFetch, netElapsed, response,
                   fetchResult, atomicVars, lastDataFetch, sunsetCalc,
                   lastSurfData>>
    /\ RenderIdle
    /\ LaneFrame

NetIdle ==
    UNCHANGED <<ms, wraps, netPc, netIterations, netNow, lastFetch, netElapsed,
                response, fetchResult, lastDataFetch>>

\* isSunsetTimeNow(), called from loop()
IsSunsetTimeNow ==
    /\ lane' = "render"
    /\ rOp' = "isSunsetTimeNow"
    /\ seenSurf' = << >>
    /\ IF ~coordinatesInitialized \/ sunsetPlayedToday
       THEN rResult' = FALSE /\ seenTime' = << >>
       ELSE /\ rResult' = IsSunsetTime(sunsetCalc)
            /\ seenTime' = IF \/ ~sunsetCalc.timeInitialized
                              \/ sunsetCalc.sunsetMinutesSinceMidnight < 0
                              \/ sunsetCalc.sunsetPlayedToday
                           THEN << >>
                           ELSE <<sunsetCalc.currentTime.hour,
                                  sunsetCalc.currentTime.minute>>
    /\ UNCHANGED <<atomicVars, sunsetCalc, lastSurfData>>
    /\ NetIdle
    /\ LaneFrame

\* markSunsetPlayed(), called from loop() once isSunsetTimeNow() has
\* returned true and the animation has played.
MarkSunsetPlayed ==
    /\ rOp = "isSunsetTimeNow"
    /\ rResult
    /\ sunsetPlayedToday' = TRUE
    /\ sunsetCalc' = [sunsetCalc EXCEPT !.sunsetPlayedToday = TRUE]
    /\ lane' = "render"
    /\ rOp' = "markSunsetPlayed"
    /\ rResult' = FALSE
    /\ seenTime' = << >>
    /\ seenSurf' = << >>
    /\ UNCHANGED <<sunsetMinutesSinceMidnight, lastDayOfYear, currentYear,
                   currentMonth, currentDay, currentHour, currentMinute,
                   coordinatesInitialized, networkTaskRunning,
                   lastSuccessfulFetch, lastSurfData>>
    /\ NetIdle
    /\ LaneFrame

\* updateSurfDisplay(), called from loop(): its reads of lastSurfData.
UpdateSurfDisplay ==
    /\ lane' = "render"
    /\ rOp' = "updateSurfDisplay"
    /\ rResult' = FALSE
    /\ seenTime' = << >>
    /\ seenSurf' = IF lastSurfData.dataReceived
                   THEN <<lastSurfData.waveHeight, lastSurfData.waveThreshold>>
                   ELSE << >>
    /\ UNCHANGED <<atomicVars, sunsetCalc, lastSurfData>>
    /\ NetIdle
    /\ LaneFrame

\* The eve of the wrap of millis(), for a lamp whose server never answered.
WrapEve == <<WORD_HIGH - 1, WORD_LOW - 1000000>>

\* Power-on with the task about to start, or 49.7 days later with every
\* fetch so far failed.
InitLanes ==
    /\ ConstructedSM
    /\ AuxIdle
    /\ now = 0
    /\ WiFiIdle
    /\ HealthIdle
    /\ FreshIdle
    /\ \/ LaneIdle
       \/ /\ ms = WrapEve
          /\ wraps = 0
          /\ netPc = "loop"
          /\ netIterations = 0
          /\ netNow = Sub32(WrapEve, W32(LOOP_DELAY_MS))
          /\ lastFetch = Sub32(WrapEve, W32(LOOP_DELAY_MS))
          /\ netElapsed = W32(FETCH_INTERVAL + LOOP_DELAY_MS)
          /\ response = NoResponse
          /\ fetchResult = FALSE
          /\ sunsetMinutesSinceMidnight = -1
          /\ sunsetPlayedToday = FALSE
          /\ lastDayOfYear = 0
          /\ currentYear = 2025
          /\ currentMonth = 1
          /\ currentDay = 1
          /\ currentHour = 0
          /\ currentMinute = 0
          /\ coordinatesInitialized = FALSE
          /\ networkTaskRunning = TRUE
          /\ lastSuccessfulFetch = <<0, 0>>
          /\ lastDataFetch = Sub32(WrapEve, W32(LOOP_DELAY_MS))
          /\ sunsetCalc = [coordinates |-> "none", tz_offset |-> 0,
                           sunsetMinutesSinceMidnight |-> -1,
                           sunsetPlayedToday |-> FALSE, lastDayOfYear |-> 0,
                           currentTime |-> [year |-> 0, month |-> 0, day |-> 0,
                                            hour |-> 0, minute |-> 0],
                           timeInitialized |-> FALSE]
          /\ lastSurfData = [waveHeight |-> 0, waveThreshold |-> 100,
                             dataReceived |-> FALSE,
                             needsDisplayUpdate |-> FALSE,
                             lastUpdate |-> <<0, 0>>]
          /\ lane = "none"
          /\ rOp = "none"
          /\ rResult = FALSE
          /\ seenTime = << >>
          /\ seenSurf = << >>

NextLanes ==
    \/ NetStart
    \/ NetLoopHead
    \/ NetHttp
    \/ NetParseDate
    \/ NetParseClock
    \/ NetProcess
    \/ NetAfterFetch
    \/ NetSleep
    \/ IsSunsetTimeNow
    \/ MarkSunsetPlayed
    \/ UpdateSurfDisplay

SpecLanes == InitLanes /\ [][NextLanes]_vars

(***************************************************************************)
(* Claims about the two lanes                                              *)
(***************************************************************************)
\* C25: every atomic cell of namespace DualCore is written only by the
\* network lane; no step of the render lane changes any of them.
C25_OnlyNetworkLaneWrites ==
    [][atomicVars' # atomicVars => lane' = "network"]_vars

\* C26: the render lane never observes a partially updated value: every
\* clock time isSunsetTimeNow reads from the SunsetCalculator is a time the
\* network lane was given as a whole.
C26_RenderReadsWholeValues ==
    seenTime # << >> =>
        seenTime \in { <<t.hour, t.minute>> : t \in ServerTimes }

\* C28 as stated: an iteration fetches exactly when the time since the last
\* fetch is greater than or equal to the interval.
C28_FetchWhenIntervalReached ==
    [][(netPc = "loop" /\ netPc' # "loop") =>
          (netPc' = "http" <=>
               ~Gt32(W32(FETCH_INTERVAL), Sub32(ms, lastFetch)))]_vars

\* C28 as the code has it: an iteration fetches exactly when the time since
\* the last fetch is greater than the interval; when it equals the interval,
\* or is below it, the iteration does not fetch.
C28_FetchWhenIntervalExceeded ==
    [][(netPc = "loop" /\ netPc' # "loop") =>
          (netPc' = "http" <=>
               Gt32(Sub32(ms, lastFetch), W32(FETCH_INTERVAL)))]_vars

\* An iteration found exactly the interval elapsed and did not fetch.
C28_Witness ==
    /\ netPc = "sleep"
    /\ netElapsed = W32(FETCH_INTERVAL)
    /\ lastFetch # netNow

\* The cells C29 names.
WrittenOnSuccess ==
    <<lastSuccessfulFetch, currentYear, currentMonth, currentDay, currentHour,
      currentMinute, lastDayOfYear, sunsetPlayedToday, coordinatesInitialized>>

\* The network lane changes the cells only in the stores that follow a
\* successful fetch.
C29_Frame ==
    [][(lane' = "network" /\ WrittenOnSuccess' # WrittenOnSuccess) =>
          (netPc = "after_fetch" /\ fetchResult)]_vars

\* C29 as stated: the network lane updates the cells only on a successful
\* fetch, and lastSuccessfulFetch never decreases.
C29_OnlyOnSuccessNeverDecreases ==
    /\ C29_Frame
    /\ [][~Gt32(lastSuccessfulFetch, lastSuccessfulFetch')]_vars

\* C29 as the code has it: the network lane updates the cells only on a
\* successful fetch; lastSuccessfulFetch becomes the iteration's millis()
\* sample, which is above the value it replaces as long as millis() has not
\* wrapped.
C29_OnlyOnSuccessIncreasesUntilWrap ==
    /\ C29_Frame
    /\ [][lastSuccessfulFetch' # lastSuccessfulFetch =>
             /\ lastSuccessfulFetch' = netNow
             /\ (wraps = 0 => Gt32(lastSuccessfulFetch', lastSuccessfulFetch))]_vars

\* After an earlier success, an iteration's fetch has failed and the
\* timestamp of the success is still in place.
C29_Witness ==
    /\ netPc = "sleep"
    /\ lastFetch = netNow
    /\ ~fetchResult
    /\ lastSuccessfulFetch # <<0, 0>>
    /\ lastSuccessfulFetch # netNow
    /\ currentMinute = 45

(***************************************************************************)
(* Part 6: SurfData::isFresh                                               *)
(*         (scalable_arduino/data/SurfDataModel.h:50-56, 76-98)            *)
(***************************************************************************)
\* How many advances of the clock are followed.
MaxTicks == 4

DATA_FRESHNESS_TIMEOUT == 1800000

\* isFresh(timeout_ms) on the fields d at millis() = nowWord
IsFresh_Inclusive(d, nowWord, timeout_ms) ==
    IF ~d.dataReceived THEN FALSE
    ELSE ~Gt32(Sub32(nowWord, d.lastUpdate), W32(timeout_ms))

IsFresh(d, nowWord, timeout_ms) ==
    IF ~d.dataReceived THEN FALSE
    ELSE Gt32(W32(timeout_ms), Sub32(nowWord, d.lastUpdate))

\* The time between two uses of the object, in ms, and the timeouts passed
\* to isFresh.
FreshGaps == {1, DATA_FRESHNESS_TIMEOUT - 1}

FreshTimeouts == {DATA_FRESHNESS_TIMEOUT, LOOP_DELAY_MS}

FreshFrame ==
    UNCHANGED <<smVars, wifiVars, fpVars, healthVars, netVars, auxVars>>

\* update(...): lastUpdate = millis(), dataReceived = true
SurfDataUpdate ==
    /\ surfData' = [dataReceived |-> TRUE, lastUpdate |-> ms]
    /\ age' = 0
    /\ freshOp' = "update"
    /\ UNCHANGED <<ms, wraps, freshTicks, freshTimeout, freshResult>>
    /\ FreshFrame

\* invalidate()
SurfDataInvalidate ==
    /\ surfData' = [surfData EXCEPT !.dataReceived = FALSE]
    /\ freshOp' = "invalidate"
    /\ UNCHANGED <<ms, wraps, age, freshTicks, freshTimeout, freshResult>>
    /\ FreshFrame

\* isFresh(timeout_ms)
SurfDataIsFresh ==
    /\ \E timeout_ms \in FreshTimeouts :
          /\ freshTimeout' = timeout_ms
          /\ freshResult' = IsFresh(surfData, ms, timeout_ms)
    /\ freshOp' = "isFresh"
    /\ UNCHANGED <<surfData, ms, wraps, age, freshTicks>>
    /\ FreshFrame

\* Time passes.
FreshTick ==
    /\ freshTicks < MaxTicks
    /\ freshTicks' = freshTicks + 1
    /\ \E gap \in FreshGaps :
          /\ ms' = Add32(ms, gap)
          /\ wraps' = wraps + (IF Wraps32(ms, gap) THEN 1 ELSE 0)
          /\ age' = age + gap
    /\ freshOp' = "time"
    /\ UNCHANGED <<surfData, freshTimeout, freshResult>>
    /\ FreshFrame

\* A freshly constructed object, at power-on or on the eve of the wrap.
InitFresh ==
    /\ ConstructedSM
    /\ AuxIdle
    /\ now = 0
    /\ WiFiIdle
    /\ HealthIdle
    /\ NetCreated
    /\ FreshIdle
    /\ ms \in {<<0, 0>>, WrapEve}
    /\ wraps = 0

NextFresh ==
    \/ SurfDataUpdate
    \/ SurfDataInvalidate
    \/ SurfDataIsFresh
    \/ FreshTick

SpecFresh == InitFresh /\ [][NextFresh]_vars

(***************************************************************************)
(* Claims about SurfData::isFresh                                          *)
(***************************************************************************)
\* C30: isFresh(timeout) returns true exactly when data has been received
\* and the time that has really passed since the last update is below the
\* timeout (an age of timeout - 1 is fresh, an age equal to the timeout is
\* stale), also when millis() has wrapped since the update, and the call
\* changes no field of the object.
C30_FreshIffAgeBelowTimeout ==
    /\ [](freshOp = "isFresh" =>
             (freshResult <=> (surfData.dataReceived /\ age < freshTimeout)))
    /\ [][freshOp' = "isFresh" => UNCHANGED <<surfData, ms>>]_vars

\* isFresh has found data stale at exactly the timeout, with the clock
\* wrapped since the update.
C30_Witness ==
    /\ freshOp = "isFresh"
    /\ freshTimeout = DATA_FRESHNESS_TIMEOUT
    /\ surfData.dataReceived
    /\ age = DATA_FRESHNESS_TIMEOUT
    /\ Gt32(surfData.lastUpdate, ms)
    /\ ~freshResult

\* isFresh has found data fresh one millisecond before the timeout, with
\* the clock wrapped since the update.
C30_WitnessFresh ==
    /\ freshOp = "isFresh"
    /\ freshTimeout = DATA_FRESHNESS_TIMEOUT
    /\ age = DATA_FRESHNESS_TIMEOUT - 1
    /\ Gt32(surfData.lastUpdate, ms)
    /\ freshResult

(***************************************************************************)
(* Part 7: setupWiFi beside a run that holds another diagnostic text       *)
(*         (lamp_refractored/lamp_template/WiFiHandler.cpp:332-391)        *)
(***************************************************************************)
\* Everything setupWiFi works with except the diagnostic string.
wifiControl == <<pc, boots, cfgSSID, nvsCount, nvsKeys, env, fingerprint,
                 hasCredentials, scenario, attempt, connected, retryStartTime,
                 attemptedSSID, millis, portalTimeout, lastDisconnectReason,
                 calls, locationChecks, ret, restarts>>

\* Texts lastWiFiError can hold.
DiagnosticTexts == {"", "Network not found"}

\* The positions of setupWiFi, and the lengths of its waits in ms.
SetupPositions == {"boot", "loop", "connect", "failed", "locate", "delay",
                   "after_loop", "returned", "restarted"}

SetupWaits ==
    {0, CONNECTION_POLL_MS, LOCATION_CHECK_DISPLAY_MS, RESTART_DELAY_MS,
     1000 * PORTAL_TIMEOUT_GENEROUS_SEC}
    \cup { 1000 * ConnectionTimeoutSec(n) : n \in 1..3 }
    \cup { 1000 * RetryDelaySec(n) : n \in 1..5 }

\* The same point of a run whose diagnostic string has another content:
\* diagnoseSSID or the event handler stored a different text there.
OtherRunsText ==
    /\ pc \in {"failed", "locate", "delay", "loop", "connect", "after_loop"}
    /\ lastWiFiError' \in DiagnosticTexts \ {lastWiFiError}
    /\ UNCHANGED <<wifiControl, smVars, fpVars, restVars>>

NextDiag ==
    \/ NextWiFi
    \/ OtherRunsText

\* A power-on in the place where the stored records come from.
InitDiag == InitWiFi /\ env = {"A", "B", "X", "Y", "Z"} /\ nvsCount = 2

SpecDiag == InitDiag /\ [][NextDiag]_vars

\* What setupWiFi can do next: the position it moves to with the value it
\* returns and whether it is connected, the time it lets pass, and the
\* portal timeout it sets.
ControlMoves ==
    <<{ <<p, c>> \in SetupPositions \X BOOLEAN :
           ENABLED (NextWiFi /\ pc' = p /\ connected' = c) },
      { r \in BOOLEAN : ENABLED (NextWiFi /\ ret' = r) },
      { d \in SetupWaits : ENABLED (NextWiFi /\ millis' = millis + d) },
      { t \in {0, PORTAL_TIMEOUT_GENEROUS_SEC} :
           ENABLED (NextWiFi /\ portalTimeout' = t) }>>

\* C31: two runs of setupWiFi that are at the same point and differ only
\* in the content of lastWiFiError can make exactly the same moves: the same
\* attempts, waits, portal timeouts, loop exits and return values.
C31_DiagnosticTextGatesNothing ==
    [][(lastWiFiError' # lastWiFiError /\ UNCHANGED wifiControl) =>
          ControlMoves' = ControlMoves]_vars

\* A failed attempt with saved credentials has been diagnosed, the location
\* check is next, and the diagnostic string is not what this run stored.
C31_Witness ==
    /\ pc = "locate"
    /\ scenario = "ROUTER_REBOOT"
    /\ lastDisconnectReason # 0
    /\ lastWiFiError = ""

(***************************************************************************)
(* Part 8: diagnoseSSID after a failed attempt                             *)
(*         (lamp_refractored/lamp_template/WiFiHandler.cpp:63-128,         *)
(*         348-364)                                                        *)
(***************************************************************************)
\* The access points in range: four of the target network, a neighbour and
\* a hidden network.
SsidAPs == TargetAPs \cup {"T_far3", "A", "Hidden"}

\* What WiFi.scanNetworks() may give: any of them strongest first, none
\* (num = 0), or the failure code.
SsidScans ==
    { [num |-> Cardinality(S), aps |-> ByRSSI(S)] : S \in SUBSET SsidAPs }
    \cup { [num |-> -2, aps |-> << >>] }

DgFrame ==
    UNCHANGED <<smVars, fpVars, healthVars, laneVars, freshVars, busVars,
                schedVars, pc, boots,
                cfgSSID, nvsCount, nvsKeys, env, fingerprint, hasCredentials,
                scenario, attempt, connected, retryStartTime, millis,
                portalTimeout, calls, locationChecks, ret, restarts>>

\* The attempt fails: WiFiEvent(ARDUINO_EVENT_WIFI_STA_DISCONNECTED) stores
\* the reason and its text, and setupWiFi reads the attempted SSID.
SsidAttemptFails ==
    /\ dgOp \in {"none", "stored"}
    /\ \E r \in DisconnectReasons :
          /\ lastDisconnectReason' = r
          /\ lastWiFiError' = GetDisconnectReasonText(r)
    /\ attemptedSSID' = TargetSSID
    /\ dgOp' = "failed"
    /\ UNCHANGED <<dgScan, dgResult>>
    /\ DgFrame

\* String diagnostic = diagnoseSSID(attemptedSSID.c_str())
SsidDiagnose ==
    /\ dgOp = "failed"
    /\ \E scan \in SsidScans :
          /\ dgScan' = scan
          /\ dgResult' = DiagnoseSSID(scan, attemptedSSID)
    /\ dgOp' = "diagnosed"
    /\ UNCHANGED <<lastWiFiError, lastDisconnectReason, attemptedSSID>>
    /\ DgFrame

\* if (diagnostic.length() > 0) lastWiFiError = diagnostic
SsidStore ==
    /\ dgOp = "diagnosed"
    /\ lastWiFiError' = IF dgResult # "" THEN dgResult ELSE lastWiFiError
    /\ dgOp' = "stored"
    /\ UNCHANGED <<dgScan, dgResult, lastDisconnectReason, attemptedSSID>>
    /\ DgFrame

InitSSID ==
    /\ ConstructedSM
    /\ now = 0
    /\ WiFiIdle
    /\ RestIdle
    /\ AuxIdle

NextSSID ==
    \/ SsidAttemptFails
    \/ SsidDiagnose
    \/ SsidStore

SpecSSID == InitSSID /\ [][NextSSID]_vars

\* The entries of the target network in the scan stored in dgScan, and the
\* strongest signal among them.
C32_Targets == { i \in 1..Len(dgScan.aps) : ApSSID(dgScan.aps[i]) = TargetSSID }

C32_Strongest ==
    CHOOSE i \in C32_Targets :
        \A k \in C32_Targets : ApRSSI(dgScan.aps[k]) <= ApRSSI(dgScan.aps[i])

C32_WitnessWeakBeforeSecurity ==
    /\ dgOp = "stored"
    /\ C32_Targets # {}
    /\ \A i \in C32_Targets : dgScan.aps[i] = "T_far3"
    /\ lastWiFiError = "Weak signal"

(***************************************************************************)
(* Further claims about WiFiFingerprinting (checked under SpecFP)          *)
(***************************************************************************)
\* The matches the 75% policy asks for: 1 of 1, 1 of 2, 2 of 3, 3 of 4.
C33_Required(n) == IF n <= 2 THEN 1 ELSE n - 1

\* C33 as stated: on a scan that shows networks, the 75% isSameLocation
\* returns true only if the number of distinct stored neighbours that are
\* visible is at least the required count, also when several access points
\* report the same SSID.
C33_TrueOnlyOnQuorumOfDistinct ==
    (variant = "quorum" /\ fpOp = "isSameLocation" /\ Len(fingerprint) > 0
       /\ fpScan.num > 0 /\ fpResult) =>
        Cardinality(ScanSSIDs(fpScan) \cap RecordSSIDs(fingerprint))
            >= C33_Required(Len(fingerprint))

\* The stored entries whose SSID the scan shows.
C34_Visible ==
    { j \in 1..Len(fingerprint) : fingerprint[j] \in ScanSSIDs(fpScan) }

\* C34 as stated: on the record and the scan of an isSameLocation call the
\* 75% variant implies the any-match variant; the two agree on an empty
\* record, on a scan of 0 networks, when no stored neighbour is visible and
\* when all are; and they differ only when at least one and fewer than the
\* required number of stored neighbours are visible.
C34_QuorumStrengthensAnyMatch ==
    fpOp = "isSameLocation" =>
        LET any == IsSameLocation(fingerprint, fpScan)
            quorum == IsSameLocationQuorum(fingerprint, fpScan)
            visible == Cardinality(C34_Visible)
        IN  /\ fpResult = IF variant = "any" THEN any ELSE quorum
            /\ quorum => any
            /\ Len(fingerprint) = 0 => (any <=> quorum)
            /\ fpScan.num = 0 => (any <=> quorum)
            /\ visible = 0 => (any <=> quorum)
            /\ visible = Len(fingerprint) => (any <=> quorum)
            /\ (any # quorum) =>
                   (1 <= visible /\ visible < C33_Required(Len(fingerprint)))

\* What load() would read from the wifi_fp namespace now.
C35_Persisted == FingerprintLoad(nvsCount, nvsKeys)

\* C35: after update() on a scan that shows networks, the persisted record
\* is the record in memory, count and entries in order; nothing but
\* update() and clear() changes what is persisted, a reboot included, and
\* load() yields exactly the persisted record, also when keys of a longer
\* earlier record are still in the namespace; update() on a scan of 0
\* networks changes neither the record in memory nor the persisted one.
C35_SurvivesPowerLoss ==
    /\ []((fpOp = "update" /\ fpScan.num > 0) => C35_Persisted = fingerprint)
    /\ [][fpOp' \notin {"update", "clear"} => C35_Persisted' = C35_Persisted]_vars
    /\ [][fpOp' = "load" => fingerprint' = C35_Persisted]_vars
    /\ [][(fpOp' = "update" /\ fpScan'.num = 0) =>
            UNCHANGED <<fingerprint, nvsCount, nvsKeys>>]_vars

\* After a reboot load() has read a record of two entries while the keys n2
\* and n3 of the longer record it replaced are still in the namespace.
C35_Witness ==
    /\ fpOp = "load"
    /\ Len(fingerprint) = 2
    /\ nvsCount = 2
    /\ nvsKeys[2] # ""
    /\ nvsKeys[3] # ""

\* update() has run on a scan of 0 networks with a record in memory.
C35_WitnessEmptyScan ==
    /\ fpOp = "update"
    /\ fpScan.num = 0
    /\ Len(fingerprint) > 0
    /\ nvsCount = Len(fingerprint)

(***************************************************************************)
(* Part 9: the StateMachine with transitionTo called by the application    *)
(*         (scalable_arduino/core/StateMachine.h:100-132, 229-242)         *)
(***************************************************************************)
\* transitionTo(newState) called directly (it is public). The machine has
\* then seen more than processEvent calls, which fresh records.
TransitionToCall(newState) ==
    \E d \in {0, 1} :
        /\ now + d <= MaxClock
        /\ smOp' = "transitionTo"
        /\ smArg' = newState
        /\ TransitionTo(newState, d)
        /\ fresh' = FALSE
        /\ UNCHANGED <<oldState, smReturn, onEnterState, onExitState>>
        /\ UNCHANGED <<wifiVars, fpVars, restVars>>

NextSMCalls ==
    \/ NextSM
    \/ \E s \in SystemState : TransitionToCall(s)

SpecSMCalls == InitSM /\ [][NextSMCalls]_vars

\* C36: forceState sets currentState to its argument and previousState to
\* the state before, and invokes no hook; every change of state made by
\* processEvent or transitionTo invokes the registered exit hook with the
\* old state and then the registered enter hook with the new state, once
\* each. So the observer is not told of a forced transition.
C36_HooksOnTransitionsOnly ==
    [][ /\ (smOp' = "forceState" /\ ~Tick /\ ~SetOnEnterState /\ ~SetOnExitState) =>
              /\ currentState' = smArg'
              /\ previousState' = currentState
              /\ hookCalls' = << >>
        /\ (smOp' \in {"processEvent", "transitionTo"}
              /\ currentState' # currentState) =>
              hookCalls' =
                 (IF onExitState THEN << <<"exit", currentState>> >> ELSE << >>)
                 \o (IF onEnterState THEN << <<"enter", currentState'>> >> ELSE << >>)
        /\ currentState' # currentState =>
              smOp' \in {"forceState", "processEvent", "transitionTo"}
      ]_vars

\* With both hooks registered the machine was forced from one state into
\* another and no hook ran.
C36_Witness ==
    /\ smOp = "forceState"
    /\ onEnterState /\ onExitState
    /\ currentState # previousState
    /\ currentState = smArg
    /\ hookCalls = << >>

\* With both hooks registered a direct transitionTo changed the state and
\* both hooks ran, exit first.
C36_WitnessTransition ==
    /\ smOp = "transitionTo"
    /\ currentState # previousState
    /\ hookCalls = << <<"exit", previousState>>, <<"enter", currentState>> >>

(***************************************************************************)
(* Part 10: the two lanes with the two stores of markSunsetPlayed as       *)
(*          separate steps, so that the network lane can run between them  *)
(*          (DualCoreManager.cpp:94-116, SunsetCalculator.cpp:150-156,     *)
(*          192-226)                                                       *)
(***************************************************************************)
RenderAtomicIdle ==
    UNCHANGED <<sunsetMinutesSinceMidnight, lastDayOfYear, currentYear,
                currentMonth, currentDay, currentHour, currentMinute,
                coordinatesInitialized, networkTaskRunning,
                lastSuccessfulFetch, lastSurfData>>

\* markSunsetPlayed(): sunsetPlayedToday.store(true)
MarkStoreFlag ==
    /\ rOp = "isSunsetTimeNow"
    /\ rResult
    /\ sunsetPlayedToday' = TRUE
    /\ lane' = "render"
    /\ rOp' = "markSunsetPlayed.store"
    /\ rResult' = FALSE
    /\ seenTime' = << >>
    /\ seenSurf' = << >>
    /\ UNCHANGED sunsetCalc
    /\ RenderAtomicIdle
    /\ NetIdle
    /\ LaneFrame

\* markSunsetPlayed(): sunsetCalc.markSunsetPlayed()
MarkCalcFlag ==
    /\ rOp = "markSunsetPlayed.store"
    /\ sunsetCalc' = [sunsetCalc EXCEPT !.sunsetPlayedToday = TRUE]
    /\ lane' = "render"
    /\ rOp' = "markSunsetPlayed"
    /\ UNCHANGED <<sunsetPlayedToday, rResult, seenTime, seenSurf>>
    /\ RenderAtomicIdle
    /\ NetIdle
    /\ LaneFrame

\* loop() calls isSunsetTimeNow() only between calls of markSunsetPlayed().
SunsetCheck ==
    /\ rOp # "markSunsetPlayed.store"
    /\ IsSunsetTimeNow

NextSunset ==
    \/ NetStart
    \/ NetLoopHead
    \/ NetHttp
    \/ NetParseDate
    \/ NetParseClock
    \/ NetProcess
    \/ NetAfterFetch
    \/ NetSleep
    \/ SunsetCheck
    \/ MarkStoreFlag
    \/ MarkCalcFlag

SpecSunset == InitLanes /\ [][NextSunset]_vars

C37_WitnessRace ==
    /\ rOp = "markSunsetPlayed"
    /\ ~sunsetPlayedToday
    /\ sunsetCalc.sunsetPlayedToday

(***************************************************************************)
(* A further claim about link health (checked under SpecHealth)            *)
(***************************************************************************)
\* C38: reconnectAttempts counts the reconnection attempts made since
\* handleWiFiHealth last saw the link connected: it is 0 after every call
\* that sees the link connected, it stays within 0..MAX_WIFI_RETRIES, it
\* changes only in handleWiFiHealth (and at a reboot), it grows by one per
\* attempt and an attempt is made only with the link down and more than
\* 10 s after the previous one, and handleWiFiHealth restarts the device
\* only when the count has reached MAX_WIFI_RETRIES.
C38_ConsecutiveFailuresOnly ==
    /\ [](reconnectAttempts \in 0..MAX_WIFI_RETRIES)
    /\ [][(hOp' = "handleWiFiHealth" /\ linkUp) => reconnectAttempts' = 0]_vars
    /\ [][reconnectAttempts' # reconnectAttempts =>
             hOp' \in {"handleWiFiHealth", "boot"}]_vars
    /\ [][reconnectAttempts' > reconnectAttempts =>
             /\ ~linkUp
             /\ reconnectAttempts' = reconnectAttempts + 1
             /\ millis - lastReconnectAttempt > 10000
             /\ lastReconnectAttempt' = millis]_vars
    /\ [][(hOp' = "handleWiFiHealth" /\ halted' /\ ~halted) =>
             (~linkUp /\ reconnectAttempts' = MAX_WIFI_RETRIES)]_vars

\* The tenth attempt in a row has been made and the device restarts.
C38_Witness ==
    /\ hOp = "handleWiFiHealth"
    /\ halted
    /\ reconnectAttempts = MAX_WIFI_RETRIES
    /\ ~linkUp

\* After a run of failures that ended with the link seen connected, a new
\* run of failures has reached its third attempt.
C38_WitnessSecondRun ==
    /\ hOp = "handleWiFiHealth"
    /\ wifiJustReconnected
    /\ reconnectAttempts = 3
    /\ ~linkUp

(***************************************************************************)
(* Part 11: the queue of the EventBus                                      *)
(*          (scalable_arduino/core/EventBus.h:112-146)                     *)
(***************************************************************************)
\* How many events are offered to queueEvent in all.
MaxOffered == 11

EventTypes == {"EVENT_DATA_RECEIVED", "EVENT_ERROR"}

\* (i + 1) % QUEUE_SIZE
NextIndex(i) == (i + 1) % QUEUE_SIZE

\* Mutant: queueEvent never finds the queue full.
QueueFull_Never(head, tail) == FALSE

\* if (nextTail == queueHead) ... return false
QueueFull(head, tail) == NextIndex(tail) = head

BusFrame ==
    UNCHANGED <<smVars, wifiVars, fpVars, healthVars, laneVars, freshVars,
                dgVars, schedVars>>

\* bool queueEvent(type, data), with the number of the offer as its data
QueueEvent(type) ==
    /\ offered < MaxOffered
    /\ offered' = offered + 1
    /\ busOp' = "queueEvent"
    /\ IF QueueFull(queueHead, queueTail)
       THEN /\ busRet' = FALSE
            /\ UNCHANGED <<eventQueue, queueTail, accepted>>
       ELSE /\ eventQueue' = [eventQueue EXCEPT
                                 ![queueTail] = [type |-> type, data |-> offered + 1]]
            /\ queueTail' = NextIndex(queueTail)
            /\ accepted' = Append(accepted, [type |-> type, data |-> offered + 1])
            /\ busRet' = TRUE
    /\ UNCHANGED <<queueHead, busPc, published>>
    /\ BusFrame

\* queueEvent called by the application, outside processQueue
BusQueueEvent ==
    /\ busPc = "idle"
    /\ \E type \in EventTypes : QueueEvent(type)

\* processQueue() is entered
BusProcessBegin ==
    /\ busPc = "idle"
    /\ busPc' = "loop"
    /\ busOp' = "processQueue"
    /\ UNCHANGED <<eventQueue, queueHead, queueTail, busRet, offered, accepted,
                   published>>
    /\ BusFrame

\* while (queueHead != queueTail): publish(event.type, event.data) starts
\* to call the subscribers
BusPublish ==
    /\ busPc = "loop"
    /\ queueHead # queueTail
    /\ published' = Append(published, eventQueue[queueHead])
    /\ busPc' = "callback"
    /\ UNCHANGED <<eventQueue, queueHead, queueTail, busOp, busRet, offered,
                   accepted>>
    /\ BusFrame

\* a subscriber's callback calls queueEvent
BusCallbackQueues ==
    /\ busPc = "callback"
    /\ \E type \in EventTypes : QueueEvent(type)

\* publish has returned: queueHead = (queueHead + 1) % QUEUE_SIZE
BusAdvance ==
    /\ busPc = "callback"
    /\ queueHead' = NextIndex(queueHead)
    /\ busPc' = "loop"
    /\ UNCHANGED <<eventQueue, queueTail, busOp, busRet, offered, accepted,
                   published>>
    /\ BusFrame

\* the loop of processQueue ends
BusProcessEnd ==
    /\ busPc = "loop"
    /\ queueHead = queueTail
    /\ busPc' = "idle"
    /\ busOp' = "processQueue.return"
    /\ UNCHANGED <<eventQueue, queueHead, queueTail, busRet, offered, accepted,
                   published>>
    /\ BusFrame

InitBus ==
    /\ ConstructedSM
    /\ now = 0
    /\ WiFiIdle
    /\ RestIdle
    /\ AuxIdle

NextBus ==
    \/ BusQueueEvent
    \/ BusProcessBegin
    \/ BusPublish
    \/ BusCallbackQueues
    \/ BusAdvance
    \/ BusProcessEnd

SpecBus == InitBus /\ [][NextBus]_vars

\* The slots of eventQueue in use, the one being published included.
C39_InUse == (queueTail - queueHead + QUEUE_SIZE) % QUEUE_SIZE

\* C39: the queue is a bounded FIFO. What processQueue has published is at
\* every moment the beginning of what queueEvent accepted, so events are
\* published in the order of acceptance and each once; when processQueue
\* returns everything accepted has been published and the queue is empty;
\* queueEvent on a full queue (QUEUE_SIZE - 1 slots in use) returns false
\* and changes neither the queue nor what will be published, and on any
\* other queue it accepts. This holds as well for queueEvent calls made by
\* a subscriber while processQueue publishes.
C39_BoundedFifo ==
    /\ [](/\ Len(published) <= Len(accepted)
          /\ published = SubSeq(accepted, 1, Len(published))
          /\ C39_InUse <= QUEUE_SIZE - 1)
    /\ [](busOp = "processQueue.return" =>
             (published = accepted /\ queueHead = queueTail))
    /\ [][offered' # offered =>
             IF C39_InUse = QUEUE_SIZE - 1
             THEN /\ busRet' = FALSE
                  /\ UNCHANGED <<eventQueue, queueHead, queueTail, accepted, published>>
             ELSE /\ busRet' = TRUE
                  /\ Len(accepted') = Len(accepted) + 1
                  /\ accepted'[Len(accepted')].data = offered']_vars

\* A subscriber offered an event while the queue was full and it was
\* dropped; everything accepted before is still to be published in order.
C39_Witness ==
    /\ busPc = "callback"
    /\ busOp = "queueEvent"
    /\ ~busRet
    /\ C39_InUse = QUEUE_SIZE - 1
    /\ Len(accepted) = Len(published) + QUEUE_SIZE - 2

\* processQueue has returned after publishing events that subscribers
\* queued while it ran, with the indices wrapped around the array.
C39_WitnessDrained ==
    /\ busOp = "processQueue.return"
    /\ Len(published) = MaxOffered - 1
    /\ queueHead = 0

(***************************************************************************)
(* Part 12: the TaskScheduler                                              *)
(*          (scalable_arduino/core/TaskScheduler.h:44-166)                 *)
(***************************************************************************)
\* How many times addTask is called, and how far millis() runs.
MaxAdds == 2
MaxSchedClock == 3

TaskCallbacks == {"taskA", "taskB"}

TaskIntervals == {2, 3}

SchedFrame ==
    UNCHANGED <<smVars, wifiVars, fpVars, healthVars, laneVars, freshVars,
                dgVars, busVars>>

\* for (i = 0; i < MAX_TASKS; i++) if (!tasks[i].enabled): the first such
\* slot, or -1
FirstFreeSlot(ts) ==
    IF \A i \in 0..(MAX_TASKS - 1) : ts[i].enabled THEN -1
    ELSE CHOOSE i \in 0..(MAX_TASKS - 1) :
            /\ ~ts[i].enabled
            /\ \A j \in 0..(i - 1) : ts[j].enabled

\* taskId < 0 || taskId >= MAX_TASKS
BadTaskId(taskId) == taskId < 0 \/ taskId >= MAX_TASKS

\* The ids the application passes: the ones addTask gave it, and two that
\* are out of range.
TaskIdsInUse == {r.id : r \in schedRegs} \cup {-1, MAX_TASKS}

\* int8_t addTask(callback, interval, name)
SchedAddTask(callback, interval) ==
    /\ schedAdds < MaxAdds
    /\ schedAdds' = schedAdds + 1
    /\ schedOp' = "addTask"
    /\ schedArg' = -1
    /\ LET i == FirstFreeSlot(tasks)
       IN  IF taskCount >= MAX_TASKS \/ i = -1
           THEN /\ schedRet' = -1
                /\ UNCHANGED <<tasks, taskCount, schedRegs>>
           ELSE /\ tasks' = [tasks EXCEPT ![i] = [callback |-> callback,
                                                  interval |-> interval,
                                                  lastRun |-> 0,
                                                  enabled |-> TRUE]]
                /\ taskCount' = taskCount + 1
                /\ schedRet' = i
                /\ schedRegs' = schedRegs \cup
                                   {[id |-> i, callback |-> callback,
                                     interval |-> interval, seq |-> schedAdds + 1]}
    /\ UNCHANGED <<schedNow, schedRan>>
    /\ SchedFrame

\* Which tasks update() runs at time t: enabled and lastRun == 0 or due.
TaskDue(task, t) ==
    task.enabled /\ (task.lastRun = 0 \/ t - task.lastRun >= task.interval)

RECURSIVE RanFrom(_, _, _)
RanFrom(ts, t, i) ==
    IF i >= MAX_TASKS THEN << >>
    ELSE IF TaskDue(ts[i], t) THEN <<ts[i].callback>> \o RanFrom(ts, t, i + 1)
    ELSE RanFrom(ts, t, i + 1)

\* void update()
SchedUpdate ==
    /\ schedOp' = "update"
    /\ schedArg' = -1
    /\ schedRan' = RanFrom(tasks, schedNow, 0)
    /\ tasks' = [i \in 0..(MAX_TASKS - 1) |->
                   IF TaskDue(tasks[i], schedNow)
                   THEN [tasks[i] EXCEPT !.lastRun = schedNow]
                   ELSE tasks[i]]
    /\ UNCHANGED <<taskCount, schedNow, schedRet, schedAdds, schedRegs>>
    /\ SchedFrame

\* bool enableTask(taskId); schedRet is 1 for true and 0 for false
SchedEnableTask(taskId) ==
    /\ schedOp' = "enableTask"
    /\ schedArg' = taskId
    /\ IF BadTaskId(taskId)
       THEN schedRet' = 0 /\ UNCHANGED tasks
       ELSE /\ schedRet' = 1
            /\ tasks' = IF ~tasks[taskId].enabled
                        THEN [tasks EXCEPT ![taskId].enabled = TRUE,
                                           ![taskId].lastRun = 0]
                        ELSE tasks
    /\ UNCHANGED <<taskCount, schedNow, schedAdds, schedRegs, schedRan>>
    /\ SchedFrame

\* bool disableTask(taskId)
SchedDisableTask(taskId) ==
    /\ schedOp' = "disableTask"
    /\ schedArg' = taskId
    /\ IF BadTaskId(taskId)
       THEN schedRet' = 0 /\ UNCHANGED tasks
       ELSE /\ schedRet' = 1
            /\ tasks' = IF tasks[taskId].enabled
                        THEN [tasks EXCEPT ![taskId].enabled = FALSE]
                        ELSE tasks
    /\ UNCHANGED <<taskCount, schedNow, schedAdds, schedRegs, schedRan>>
    /\ SchedFrame

\* bool removeTask(taskId); the application gives up the registrations it
\* holds under that id
SchedRemoveTask(taskId) ==
    /\ schedOp' = "removeTask"
    /\ schedArg' = taskId
    /\ IF BadTaskId(taskId)
       THEN schedRet' = 0 /\ UNCHANGED <<tasks, taskCount, schedRegs>>
       ELSE /\ schedRet' = 1
            /\ IF tasks[taskId].enabled
               THEN /\ tasks' = [tasks EXCEPT ![taskId].enabled = FALSE]
                    /\ taskCount' = taskCount - 1
               ELSE UNCHANGED <<tasks, taskCount>>
            /\ schedRegs' = {r \in schedRegs : r.id # taskId}
    /\ UNCHANGED <<schedNow, schedAdds, schedRan>>
    /\ SchedFrame

\* millis() advances
SchedTick ==
    /\ schedNow < MaxSchedClock
    /\ schedNow' = schedNow + 1
    /\ UNCHANGED <<tasks, taskCount, schedOp, schedArg, schedRet, schedAdds,
                   schedRegs, schedRan>>
    /\ SchedFrame

InitSched ==
    /\ ConstructedSM
    /\ now = 0
    /\ WiFiIdle
    /\ RestIdle
    /\ AuxIdle

NextSched ==
    \/ \E callback \in TaskCallbacks, interval \in TaskIntervals :
          SchedAddTask(callback, interval)
    \/ SchedUpdate
    \/ \E taskId \in TaskIdsInUse : SchedEnableTask(taskId)
    \/ \E taskId \in TaskIdsInUse : SchedDisableTask(taskId)
    \/ \E taskId \in TaskIdsInUse : SchedRemoveTask(taskId)
    \/ SchedTick

SpecSched == InitSched /\ [][NextSched]_vars

\* C40: disableTask does not remove a task. Whatever addTask calls follow
\* a disableTask(id), every task that was added and not removed is still in
\* the slot addTask returned for it, with its callback and interval (so
\* that enableTask(id) resumes that task), and getTaskCount() is the number
\* of tasks added and not removed.
C40_DisableKeepsTask ==
    /\ \A r \in schedRegs :
          /\ tasks[r.id].callback = r.callback
          /\ tasks[r.id].interval = r.interval
    /\ taskCount = Cardinality(schedRegs)

====
